---- MODULE Spec2Model ----
(***************************************************************************)
(* A model of the concurrent resource-management layer of august-code:     *)
(* the connection pool (core/database.rs, async_db.rs), the TTL cache and  *)
(* the sliding-window rate limiter (core/web_server.rs), the task          *)
(* scheduler (core/scheduler.rs) and the lock discipline of their          *)
(* operations.                                                             *)
(*                                                                         *)
(* An id "conn_<n>" or "task_<n>" is modelled by the number n (format! of  *)
(* an integer is injective).  Instants are natural numbers of clock ticks, *)
(* SystemTime is in whole seconds.                                         *)
(***************************************************************************)
EXTENDS Integers, Sequences, FiniteSets, TLC

\* ------------------------------------------------------------------ bounds
MaxAcquires == 4      \* get_connection calls made in one behaviour
MaxPoolSize == 2      \* largest max_connections given to ConnectionPool::new

MaxRequests == 2      \* largest max_requests given to RateLimiter::new
MaxWindow == 2        \* largest time_window given to RateLimiter::new, in ticks
MaxTime == 2          \* the clock stops advancing at this Instant
MaxCalls == 4         \* allow_request calls made in one behaviour
NumCallers == 2       \* tasks calling allow_request concurrently
NumLockTasks == 2     \* tasks running operations in the lock-discipline model

MaxWall == 1          \* SystemTime::now() of the cache operations is in 0..MaxWall seconds
MaxTtl == 1           \* largest ttl given to store_in_cache, in seconds
MaxCacheOps == 2      \* cache operations started in one behaviour
MaxFetchCalls == 2    \* fetch_with_cache calls started in one behaviour

MaxTasks == 2         \* tasks registered with one AsyncTaskScheduler
MaxRuns == 1          \* invocations of the work of one periodic task that are counted
MaxInstant == 1       \* the Instant the scheduler's records are stamped with stops here

MaxStoreOps == 2      \* create_user, update_user, delete_user and find_user calls made directly
MaxTxOps == 2         \* operations added to one Transaction

MaxConfigCalls == 3   \* calls made on one ConfigManager
MaxWatchers == 1      \* watchers added to one ConfigManager

MaxRetries == 3       \* largest max_retries / max_attempts given to a retry call
MaxResources == 2     \* largest max_resources given to ResourcePool::new
MaxResourceAcquires == 5  \* ResourcePool::acquire calls made in one behaviour

MaxEnqueues == 4      \* enqueue calls made on one TaskQueue
MaxCapacity == 2      \* largest max_size given to TaskQueue::with_max_size

\* The TTL fetch_with_cache stores with, in seconds.
CACHE_TTL == 300

ConnIds == 1..MaxAcquires
Callers == 1..NumCallers
LockTasks == 1..NumLockTasks
TaskIds == 1..MaxTasks
\* The delays and intervals given to the scheduler, in ticks: none and some.
Delays == {0, 1}
Registrants == {"r1", "r2"}
CacheTasks == {"t1", "t2"}
Urls == {"u1", "u2"}
Contents == {"x", "y"}
WallTimes == 0..MaxWall
Ttls == 0..MaxTtl
\* The seconds at which fetch_with_cache is observed: an entry stored at 0
\* has expired at CACHE_TTL, one stored at 1 has not.
FetchTimes == {0, 1, CACHE_TTL}

VARIABLES
    \* AsyncDatabase / ConnectionPool
    connection_pool,  \* AsyncDatabase.connection_pool: Vec<Connection>
    max_connections,  \* ConnectionPool.max_connections
    connections,      \* ConnectionPool.connections: the idle DatabaseConnections
    dbHandles,        \* live DatabaseConnection handles held by callers, per id
    pooledHandles,    \* live PooledConnection handles held by callers, per id
    releaseTasks,     \* spawned release_connection tasks not yet run, per id
    returnTasks,      \* spawned return_connection tasks not yet run, per id
    creating,         \* ConnectionPool::get_connection calls between their two locks
    acquires,         \* get_connection calls started so far
    dropped,          \* handles of callers that left their scope, per id
    returned,         \* return_connection calls that ran, per id
    released,         \* release_connection calls that ran, per id
    log               \* AsyncDatabase callers' get and drop events, oldest first

poolVars == <<connection_pool, max_connections, connections, dbHandles,
              pooledHandles, releaseTasks, returnTasks, creating, acquires,
              dropped, returned, released, log>>

VARIABLES
    \* RateLimiter
    requests,         \* RateLimiter.requests: Vec<Instant>
    max_requests,     \* RateLimiter.max_requests
    time_window,      \* RateLimiter.time_window, in ticks
    clock,            \* what Instant::now() returns
    rlPc,             \* per caller: "idle", or "locking" inside allow_request
    rlNow,            \* per caller: the now its allow_request read
    calls,            \* allow_request calls started so far
    rlLog             \* the admission decisions made, oldest first

rlVars == <<requests, max_requests, time_window, clock, rlPc, rlNow, calls, rlLog>>

VARIABLES
    \* lock discipline
    lkOp,             \* per task: the operation it runs, "none" when it runs none
    lkIp,             \* per task: the index of its next step
    lkHeld,           \* per task: the lock guards it holds, as <<lock, mode>>
    lkSuspended       \* per task: whether it is suspended at an await

lkVars == <<lkOp, lkIp, lkHeld, lkSuspended>>

VARIABLES
    \* RateLimiter::wait_for_permission
    waitPc,           \* the waiting task: "none", "trying", "sleeping" or "returned"
    waitRecorded      \* timestamps the current wait_for_permission call has pushed

waitVars == <<waitPc, waitRecorded>>

VARIABLES
    \* AsyncWebServer cache
    cache,            \* AsyncWebServer.cache: HashMap<String, CacheEntry>
    wall,             \* what SystemTime::now() returns, in seconds since the epoch
    overflow_checks,  \* whether the build panics on integer overflow
    cachePc,          \* per task: "idle", "awaiting", "storing", "sweeping" or "panicked"
    cacheVia,         \* per task: "direct", or "fetch" inside fetch_with_cache
    cacheUrl,         \* per task: the url of its call
    cacheData,        \* per task: the data its store_in_cache inserts
    cacheTtl,         \* per task: the ttl its store_in_cache inserts
    cacheNow,         \* per task: the now its store_in_cache or cleanup_cache read
    cacheOps,         \* cache operations started so far
    cacheEv,          \* the cache operation that completed last
    fetchCall         \* per task: what its current or last fetch_with_cache did

cacheVars == <<cache, wall, overflow_checks, cachePc, cacheVia, cacheUrl,
               cacheData, cacheTtl, cacheNow, cacheOps, cacheEv, fetchCall>>

VARIABLES
    \* AsyncTaskScheduler
    tasks,            \* AsyncTaskScheduler.tasks: Vec<TaskInfo>
    running_tasks,    \* AsyncTaskScheduler.running_tasks: the ids of the JoinHandles
    task_counter,     \* AsyncTaskScheduler.task_counter
    regPc,            \* per registrant: "idle", "registering" or "spawned"
    regId,            \* per registrant: the task id its call generated
    regKind,          \* per registrant: "periodic" or "one_time"
    regDelay,         \* per registrant: the interval or delay given
    bodyPc,           \* per task id: where its spawned body is
    bodyKind,         \* per task id: "periodic" or "one_time"
    bodyDelay,        \* per task id: the interval of the periodic body
    bodyTimer,        \* per task id: ticks until its sleep or interval tick is over
    invoked,          \* per task id: how often the work was invoked, up to MaxRuns
    issued,           \* the ids generate_task_id returned, oldest first
    returnedIds       \* the ids the add_ calls returned, oldest first

schedVars == <<tasks, running_tasks, task_counter, regPc, regId, regKind,
               regDelay, bodyPc, bodyKind, bodyDelay, bodyTimer, invoked,
               issued, returnedIds>>

VARIABLES
    \* AsyncTaskScheduler::wait_for_all, one caller
    joinPc,           \* "idle", "waiting" (holding running_tasks.read()) or "returned"
    joinIdx,          \* the position in running_tasks of the handle it awaits
    joinTracked       \* running_tasks at the time of the call

joinVars == <<joinPc, joinIdx, joinTracked>>

VARIABLES
    \* TaskQueue
    queue,            \* TaskQueue.queue: Vec<TaskInfo>
    max_size,         \* TaskQueue.max_size: Option<usize>
    qCalls,           \* enqueue calls made so far
    qOp,              \* the queue operation that completed last
    qResult           \* what that operation returned

queueVars == <<queue, max_size, qCalls, qOp, qResult>>

VARIABLES
    \* the Instants in the TaskInfo records
    instant,          \* Instant::now(), monotone
    instants          \* per task id: created_at and the Instants in started_at
                      \* and completed_at, 0 while they are None

clockVars == <<instant, instants>>

VARIABLES
    \* AsyncDatabase's record store and one Transaction
    db_data,          \* AsyncDatabase.data: HashMap<String, User>
    storeOps,         \* direct calls made so far
    storeEv,          \* the direct call that completed last
    txPc,             \* "none", "building", "committing", "committed" or "failed"
    txOps,            \* Transaction.operations still to be applied
    txBefore          \* data when the transaction was begun

storeVars == <<db_data, storeOps, storeEv, txPc, txOps, txBefore>>

VARIABLES
    \* ConfigManager
    config,           \* ConfigManager.config: the AppConfig
    watchers,         \* ConfigManager.watchers: how many there are
    cfgWriter,        \* the task holding the write guard of config, or "none"
    cfgPc,            \* per task: "idle", "want_write" or "want_read"
    cfgOp,            \* per task: the function it is in
    cfgArg,           \* per task: the AppConfig its call brings
    cfgCalls,         \* calls made so far
    cfgEv             \* the call that returned last

configVars == <<config, watchers, cfgWriter, cfgPc, cfgOp, cfgArg, cfgCalls,
                cfgEv>>

VARIABLES
    \* ResourcePool
    max_resources,    \* the max_resources given to ResourcePool::new
    permits,          \* the permits ResourcePool.resources (a Semaphore) has left
    next_id,          \* ResourcePool.next_id
    held              \* the ids of the Resources acquired and not yet released

resourceVars == <<max_resources, permits, next_id, held>>

VARIABLES
    \* fetch_with_retry / ErrorHandler::with_retry, one call
    retryOp,          \* the function called and, for with_retry, whether config.timeout is set
    max_attempts,     \* max_retries of fetch_with_retry, config.max_attempts of with_retry
    attempt,          \* the loop variable, 0 before the first round
    last_error,       \* last_error: "none" for None, else the error of Some(e)
    retryPc,          \* where the call is
    attempts,         \* how many times the operation has been invoked
    sleeps,           \* the attempts after which the call slept, in order
    retryResult       \* what the call returned, "none" while it has not

retryVars == <<retryOp, max_attempts, attempt, last_error, retryPc, attempts,
               sleeps, retryResult>>

vars == <<poolVars, rlVars, lkVars, waitVars, cacheVars, schedVars, joinVars,
          queueVars, clockVars, storeVars, configVars, resourceVars,
          retryVars>>

\* ------------------------------------------------------- AsyncDatabase
\* The index of the first connection of pool that satisfies is_active (the
\* code's marker of an idle connection), 0 when there is none.
RECURSIVE FirstActiveFrom(_, _)
FirstActiveFrom(pool, i) ==
    IF i > Len(pool) THEN 0
    ELSE IF pool[i].is_active THEN i
    ELSE FirstActiveFrom(pool, i + 1)

FirstActive(pool) == FirstActiveFrom(pool, 1)

\* A new Connection: is_active = false marks it as in use.
NewConnection(pool) == [id |-> Len(pool) + 1, is_active |-> FALSE]

\* The id AsyncDatabase::get_connection returns.
get_connection_id_New(pool) == NewConnection(pool).id

get_connection_id(pool) ==
    IF FirstActive(pool) # 0 THEN pool[FirstActive(pool)].id
    ELSE NewConnection(pool).id

\* The connection_pool AsyncDatabase::get_connection leaves.
get_connection_pool_NoMark(pool) ==
    IF FirstActive(pool) # 0 THEN pool
    ELSE Append(pool, NewConnection(pool))

get_connection_pool(pool) ==
    IF FirstActive(pool) # 0
    THEN [pool EXCEPT ![FirstActive(pool)].is_active = FALSE]
    ELSE Append(pool, NewConnection(pool))

\* The index of the first connection with the given id, 0 when there is none.
RECURSIVE FindIdFrom(_, _, _)
FindIdFrom(pool, conn_id, i) ==
    IF i > Len(pool) THEN 0
    ELSE IF pool[i].id = conn_id THEN i
    ELSE FindIdFrom(pool, conn_id, i + 1)

\* AsyncDatabase::release_connection: the first connection with conn_id
\* becomes idle (is_active = true).
release_connection_Noop(pool, conn_id) == pool

release_connection(pool, conn_id) ==
    IF FindIdFrom(pool, conn_id, 1) # 0
    THEN [pool EXCEPT ![FindIdFrom(pool, conn_id, 1)].is_active = TRUE]
    ELSE pool

\* ---------------------------------------------------------- pool state
EmptyBag == [c \in ConnIds |-> 0]
BagAdd(b, c) == [b EXCEPT ![c] = @ + 1]
BagRemove(b, c) == [b EXCEPT ![c] = @ - 1]
BagSize(b) ==
    LET RECURSIVE Sum(_)
        Sum(n) == IF n = 0 THEN 0 ELSE b[n] + Sum(n - 1)
    IN Sum(MaxAcquires)

Event(kind, id) == [kind |-> kind, id |-> id]

PoolInit ==
    /\ connection_pool = <<>>
    /\ max_connections \in 0..MaxPoolSize
    /\ connections = <<>>
    /\ dbHandles = EmptyBag
    /\ pooledHandles = EmptyBag
    /\ releaseTasks = EmptyBag
    /\ returnTasks = EmptyBag
    /\ creating = 0
    /\ acquires = 0
    /\ dropped = EmptyBag
    /\ returned = EmptyBag
    /\ released = EmptyBag
    /\ log = <<>>

\* The state of a database nobody wraps in a ConnectionPool.
DbInit ==
    /\ PoolInit
    /\ max_connections = 0

\* A caller's AsyncDatabase::get_connection, whole: it runs under the write
\* lock of connection_pool.
DbGetConnection ==
    /\ acquires < MaxAcquires
    /\ acquires' = acquires + 1
    /\ connection_pool' = get_connection_pool(connection_pool)
    /\ dbHandles' = BagAdd(dbHandles, get_connection_id(connection_pool))
    /\ log' = Append(log, Event("get", get_connection_id(connection_pool)))
    /\ UNCHANGED <<max_connections, connections, pooledHandles, releaseTasks,
                   returnTasks, creating, dropped, returned, released>>

\* Drop of a DatabaseConnection a caller holds: the handle is gone and a
\* task that will call release_connection is spawned.
DropDatabaseConnection(c) ==
    /\ dbHandles[c] > 0
    /\ dbHandles' = BagRemove(dbHandles, c)
    /\ releaseTasks' = BagAdd(releaseTasks, c)
    /\ dropped' = BagAdd(dropped, c)
    /\ log' = Append(log, Event("drop", c))
    /\ UNCHANGED <<connection_pool, max_connections, connections, pooledHandles,
                   returnTasks, creating, acquires, returned, released>>

\* The spawned task runs release_connection under the write lock.
ReleaseConnectionTask(c) ==
    /\ releaseTasks[c] > 0
    /\ releaseTasks' = BagRemove(releaseTasks, c)
    /\ connection_pool' = release_connection(connection_pool, c)
    /\ released' = BagAdd(released, c)
    /\ UNCHANGED <<max_connections, connections, dbHandles, pooledHandles,
                   returnTasks, creating, acquires, dropped, returned, log>>

\* ------------------------------------------------------ ConnectionPool
\* ConnectionPool::get_connection, first block: an idle DatabaseConnection
\* is popped from connections and handed out.
PoolGetConnectionPop ==
    /\ acquires < MaxAcquires
    /\ connections # <<>>
    /\ acquires' = acquires + 1
    /\ connections' = SubSeq(connections, 1, Len(connections) - 1)
    /\ pooledHandles' = BagAdd(pooledHandles, connections[Len(connections)])
    /\ UNCHANGED <<connection_pool, max_connections, dbHandles, releaseTasks,
                   returnTasks, creating, dropped, returned, released, log>>

\* ConnectionPool::get_connection, first block with nothing to pop: the
\* lock on connections is released and the call goes on to the database.
PoolGetConnectionEmpty ==
    /\ acquires < MaxAcquires
    /\ connections = <<>>
    /\ acquires' = acquires + 1
    /\ creating' = creating + 1
    /\ UNCHANGED <<connection_pool, max_connections, connections, dbHandles,
                   pooledHandles, releaseTasks, returnTasks, dropped, returned,
                   released, log>>

\* ConnectionPool::get_connection, second part: database.get_connection()
\* and the PooledConnection built around its result.
PoolGetConnectionCreate ==
    /\ creating > 0
    /\ creating' = creating - 1
    /\ connection_pool' = get_connection_pool(connection_pool)
    /\ pooledHandles' = BagAdd(pooledHandles, get_connection_id(connection_pool))
    /\ UNCHANGED <<max_connections, connections, dbHandles, releaseTasks,
                   returnTasks, acquires, dropped, returned, released, log>>

\* Drop of a PooledConnection: the DatabaseConnection is taken out of it and
\* a task that will call return_connection is spawned.
DropPooledConnection(c) ==
    /\ pooledHandles[c] > 0
    /\ pooledHandles' = BagRemove(pooledHandles, c)
    /\ returnTasks' = BagAdd(returnTasks, c)
    /\ dropped' = BagAdd(dropped, c)
    /\ UNCHANGED <<connection_pool, max_connections, connections, dbHandles,
                   releaseTasks, creating, acquires, returned, released, log>>

\* ConnectionPool::return_connection: whether the connection is kept.
return_connection_keeps(conns, max) == Len(conns) < max

\* The spawned task runs return_connection: the connection goes back to
\* connections when there is room; otherwise the DatabaseConnection is
\* dropped at the end of the call, which spawns its release task.
ReturnConnectionTask(c) ==
    /\ returnTasks[c] > 0
    /\ returnTasks' = BagRemove(returnTasks, c)
    /\ returned' = BagAdd(returned, c)
    /\ IF return_connection_keeps(connections, max_connections)
       THEN /\ connections' = Append(connections, c)
            /\ releaseTasks' = releaseTasks
       ELSE /\ connections' = connections
            /\ releaseTasks' = BagAdd(releaseTasks, c)
    /\ UNCHANGED <<connection_pool, max_connections, dbHandles, pooledHandles,
                   creating, acquires, dropped, released, log>>

\* --------------------------------------------------------- RateLimiter
\* now.duration_since(time): tokio's Instant saturates at zero when time
\* is later than now.
duration_since(now, time) == IF now > time THEN now - time ELSE 0

\* The predicate of requests.retain: the timestamps that stay.
retained_Inclusive(now, time, window) == duration_since(now, time) <= window

retained(now, time, window) == duration_since(now, time) < window

\* Vec::retain: the elements that satisfy the predicate, in their order.
RECURSIVE retain(_, _, _)
retain(reqs, now, window) ==
    IF reqs = <<>> THEN <<>>
    ELSE IF retained(now, Head(reqs), window)
         THEN <<Head(reqs)>> \o retain(Tail(reqs), now, window)
         ELSE retain(Tail(reqs), now, window)

\* The admission test of allow_request, on the length after the retain.
admits_Inclusive(len, max) == len <= max

admits(len, max) == len < max

\* What allow_request returns.
allow_request_result(reqs, now, max, window) ==
    admits(Len(retain(reqs, now, window)), max)

\* The requests allow_request leaves.
allow_request_requests_PushAlways(reqs, now, max, window) ==
    Append(retain(reqs, now, window), now)

allow_request_requests(reqs, now, max, window) ==
    IF admits(Len(retain(reqs, now, window)), max)
    THEN Append(retain(reqs, now, window), now)
    ELSE retain(reqs, now, window)

RlInit ==
    /\ requests = <<>>
    /\ max_requests \in 0..MaxRequests
    /\ time_window \in 0..MaxWindow
    /\ clock = 0
    /\ rlPc = [p \in Callers |-> "idle"]
    /\ rlNow = [p \in Callers |-> 0]
    /\ calls = 0
    /\ rlLog = <<>>

\* No rate limiter in use.
RlQuiet ==
    /\ RlInit
    /\ max_requests = 0
    /\ time_window = 0

\* allow_request, first statement: now is read before the lock is asked for.
AllowRequestNow(p) ==
    /\ rlPc[p] = "idle"
    /\ calls < MaxCalls
    /\ calls' = calls + 1
    /\ rlNow' = [rlNow EXCEPT ![p] = clock]
    /\ rlPc' = [rlPc EXCEPT ![p] = "locking"]
    /\ UNCHANGED <<requests, max_requests, time_window, clock, rlLog>>

\* allow_request, the rest: under the write lock of requests.
AllowRequestLocked(p) ==
    /\ rlPc[p] = "locking"
    /\ requests' = allow_request_requests(requests, rlNow[p], max_requests, time_window)
    /\ rlLog' = Append(rlLog,
            [now |-> rlNow[p],
             before |-> requests,
             after |-> allow_request_requests(requests, rlNow[p], max_requests, time_window),
             ok |-> allow_request_result(requests, rlNow[p], max_requests, time_window)])
    /\ rlPc' = [rlPc EXCEPT ![p] = "idle"]
    /\ UNCHANGED <<max_requests, time_window, clock, rlNow, calls>>

\* Time passes.
Tick ==
    /\ clock < MaxTime
    /\ clock' = clock + 1
    /\ UNCHANGED <<requests, max_requests, time_window, rlPc, rlNow, calls, rlLog>>

\* The task that calls wait_for_permission.
Waiter == 1

\* The loop condition of wait_for_permission, negated: the call returns
\* when its allow_request returned true.
wait_for_permission_exits_Always(ok) == TRUE

wait_for_permission_exits(ok) == ok

\* No wait_for_permission call made.
WaitQuiet ==
    /\ waitPc = "none"
    /\ waitRecorded = 0

\* wait_for_permission is called and makes its first allow_request.  The
\* call starts while the clock can still advance by a whole time_window.
WaitForPermissionCall ==
    /\ waitPc \in {"none", "returned"}
    /\ clock + time_window <= MaxTime
    /\ AllowRequestNow(Waiter)
    /\ waitPc' = "trying"
    /\ waitRecorded' = 0

\* The allow_request of the loop condition decides; the call returns on
\* true and goes to sleep on false.
WaitAttemptLocked ==
    /\ waitPc = "trying"
    /\ AllowRequestLocked(Waiter)
    /\ waitRecorded' = waitRecorded + Len(requests')
                          - Len(retain(requests, rlNow[Waiter], time_window))
    /\ waitPc' = IF wait_for_permission_exits(
                        allow_request_result(requests, rlNow[Waiter],
                                             max_requests, time_window))
                 THEN "returned"
                 ELSE "sleeping"

\* The sleep of 100 ms is over, so the clock has advanced, and the loop
\* calls allow_request again, which reads now.
WaitWake ==
    /\ waitPc = "sleeping"
    /\ clock > rlNow[Waiter]
    /\ rlNow' = [rlNow EXCEPT ![Waiter] = clock]
    /\ rlPc' = [rlPc EXCEPT ![Waiter] = "locking"]
    /\ waitPc' = "trying"
    /\ UNCHANGED <<requests, max_requests, time_window, clock, calls, rlLog,
                   waitRecorded>>

\* ------------------------------------------------ AsyncWebServer cache
\* Option<String>
None == <<>>
Some(v) == <<v>>

CacheEntry(data, timestamp, ttl) ==
    [data |-> data, timestamp |-> timestamp, ttl |-> ttl]

\* now - entry.timestamp on u64 underflows.
underflows(now, entry) == now < entry.timestamp

\* now - entry.timestamp < entry.ttl on u64, in a build without overflow
\* checks: the difference wraps to 2^64 - (timestamp - now), which no ttl
\* used here exceeds.
fresh_Inclusive(now, entry) ==
    IF underflows(now, entry)
    THEN FALSE
    ELSE now - entry.timestamp <= entry.ttl

fresh(now, entry) ==
    IF underflows(now, entry)
    THEN FALSE
    ELSE now - entry.timestamp < entry.ttl

\* What get_from_cache returns.
get_from_cache(c, url, now) ==
    IF url \in DOMAIN c /\ fresh(now, c[url])
    THEN Some(c[url].data)
    ELSE None

\* Whether get_from_cache panics, in a build with overflow checks.
get_from_cache_panics(c, url, now) ==
    url \in DOMAIN c /\ underflows(now, c[url])

\* The cache get_from_cache leaves: it only reads.
get_from_cache_cache_Touch(c, url, now) ==
    IF url \in DOMAIN c /\ fresh(now, c[url])
    THEN [k \in DOMAIN c |->
            IF k = url THEN CacheEntry(c[k].data, now, c[k].ttl) ELSE c[k]]
    ELSE c

\* A get that would drop the entry it finds expired.
get_from_cache_cache_Evict(c, url, now) ==
    IF url \in DOMAIN c /\ ~fresh(now, c[url])
    THEN [k \in DOMAIN c \ {url} |-> c[k]]
    ELSE c

get_from_cache_cache(c, url, now) == c

\* The cache fetch_with_cache leaves when send() or text() fails: the ?
\* operator returns before store_in_cache is reached.
fetch_error_cache_Negative(c, url, now) ==
    [k \in DOMAIN c \cup {url} |->
        IF k = url THEN CacheEntry("x", now, CACHE_TTL) ELSE c[k]]

fetch_error_cache(c, url, now) == c

\* HashMap::insert as store_in_cache calls it.
store_in_cache_KeepOld(c, url, data, now, ttl) ==
    [k \in DOMAIN c \cup {url} |->
        IF k \in DOMAIN c THEN c[k] ELSE CacheEntry(data, now, ttl)]

store_in_cache(c, url, data, now, ttl) ==
    [k \in DOMAIN c \cup {url} |->
        IF k = url THEN CacheEntry(data, now, ttl) ELSE c[k]]

\* The keys HashMap::retain keeps in cleanup_cache.
cleanup_cache_kept(c, now) == {k \in DOMAIN c : fresh(now, c[k])}

\* cache.retain(...) of cleanup_cache when the closure does not panic.
cleanup_cache(c, now) == [k \in cleanup_cache_kept(c, now) |-> c[k]]

\* The caches retain can leave when its closure panics on an entry: the
\* entries visited before it are swept, in the map's iteration order.
cleanup_cache_panicked(c, now) ==
    {[k \in DOMAIN c \ gone |-> c[k]] :
        gone \in SUBSET {k \in DOMAIN c :
                            ~underflows(now, c[k]) /\ ~fresh(now, c[k])}}

\* cache_stats: (total, valid)
cache_stats(c, now) ==
    <<Cardinality(DOMAIN c),
      Cardinality({k \in DOMAIN c : fresh(now, c[k])})>>

\* HashMap::new()
EmptyCache == [k \in {} |-> CacheEntry("x", 0, 0)]

\* The cache operation that completed last: the url it was given, the now
\* it used, what it returned, whether it panicked, and whether it replaced
\* an entry by a different one.
CacheEvent(op, url, now, result, panicked, replaced) ==
    [op |-> op, url |-> url, now |-> now, result |-> result,
     panicked |-> panicked, replaced |-> replaced]

NoEvent == CacheEvent("none", "u1", 0, None, FALSE, FALSE)

\* What a fetch_with_cache call did: whether its get missed, how often it
\* invoked the fetch and wrote the cache, what it returned, whether another
\* call was between its miss and its write for the same url, the position
\* of its write among the writes, and the timestamp it wrote.
NoCall ==
    [url |-> "u1", missed |-> FALSE, fetches |-> 0, stores |-> 0,
     result |-> None, ok |-> FALSE, done |-> FALSE, raced |-> FALSE,
     stamp |-> 0, stored_at |-> 0]

\* AsyncWebServer::new, at some second of the wall clock.
CacheInit ==
    /\ cache = EmptyCache
    /\ wall = 0
    /\ overflow_checks \in BOOLEAN
    /\ cachePc = [t \in CacheTasks |-> "idle"]
    /\ cacheVia = [t \in CacheTasks |-> "direct"]
    /\ cacheUrl = [t \in CacheTasks |-> "u1"]
    /\ cacheData = [t \in CacheTasks |-> "x"]
    /\ cacheTtl = [t \in CacheTasks |-> 0]
    /\ cacheNow = [t \in CacheTasks |-> 0]
    /\ cacheOps = 0
    /\ cacheEv = NoEvent
    /\ fetchCall = [t \in CacheTasks |-> NoCall]

\* No web server in use.
CacheQuiet ==
    /\ CacheInit
    /\ overflow_checks = FALSE

\* The call of task t is over and its locals are gone.
CacheReturn(t) ==
    /\ cacheVia' = [cacheVia EXCEPT ![t] = "direct"]
    /\ cacheUrl' = [cacheUrl EXCEPT ![t] = "u1"]
    /\ cacheData' = [cacheData EXCEPT ![t] = "x"]
    /\ cacheTtl' = [cacheTtl EXCEPT ![t] = 0]
    /\ cacheNow' = [cacheNow EXCEPT ![t] = 0]

\* get_from_cache: the read lock is taken, then now is read.
GetFromCache(t, url) ==
    /\ cachePc[t] = "idle"
    /\ cacheOps < MaxCacheOps
    /\ cacheOps' = cacheOps + 1
    /\ IF overflow_checks /\ get_from_cache_panics(cache, url, wall)
       THEN /\ cachePc' = [cachePc EXCEPT ![t] = "panicked"]
            /\ cache' = cache
            /\ cacheEv' = CacheEvent("get", url, wall, None, TRUE, FALSE)
       ELSE /\ cachePc' = cachePc
            /\ cache' = get_from_cache_cache(cache, url, wall)
            /\ cacheEv' = CacheEvent("get", url, wall,
                                     get_from_cache(cache, url, wall), FALSE, FALSE)
    /\ UNCHANGED <<wall, overflow_checks, cacheVia, cacheUrl, cacheData,
                   cacheTtl, cacheNow, fetchCall>>

\* store_in_cache, first statement: now is read before the write lock is
\* asked for.
StoreInCacheNow(t, url, data, ttl) ==
    /\ cachePc[t] = "idle"
    /\ cacheOps < MaxCacheOps
    /\ cacheOps' = cacheOps + 1
    /\ cachePc' = [cachePc EXCEPT ![t] = "storing"]
    /\ cacheVia' = [cacheVia EXCEPT ![t] = "direct"]
    /\ cacheUrl' = [cacheUrl EXCEPT ![t] = url]
    /\ cacheData' = [cacheData EXCEPT ![t] = data]
    /\ cacheTtl' = [cacheTtl EXCEPT ![t] = ttl]
    /\ cacheNow' = [cacheNow EXCEPT ![t] = wall]
    /\ UNCHANGED <<cache, wall, overflow_checks, cacheEv, fetchCall>>

\* The greatest write position of the calls on record.
RECURSIVE MaxStamp(_)
MaxStamp(ts) ==
    IF ts = {}
    THEN 0
    ELSE LET t == CHOOSE x \in ts : TRUE
             rest == MaxStamp(ts \ {t})
         IN  IF fetchCall[t].stamp > rest THEN fetchCall[t].stamp ELSE rest

\* store_in_cache, the rest: the insert under the write lock.  Called by
\* fetch_with_cache, it is that call's last step, which returns Ok(content).
StoreInCacheInsert(t) ==
    /\ cachePc[t] = "storing"
    /\ cache' = store_in_cache(cache, cacheUrl[t], cacheData[t], cacheNow[t],
                               cacheTtl[t])
    /\ cacheEv' = CacheEvent("store", cacheUrl[t], cacheNow[t], None, FALSE,
                             /\ cacheUrl[t] \in DOMAIN cache
                             /\ cache[cacheUrl[t]] # CacheEntry(cacheData[t],
                                                        cacheNow[t], cacheTtl[t]))
    /\ cachePc' = [cachePc EXCEPT ![t] = "idle"]
    /\ fetchCall' =
         IF cacheVia[t] = "fetch"
         THEN [fetchCall EXCEPT ![t] =
                 [@ EXCEPT !.stores = @ + 1,
                           !.result = Some(cacheData[t]),
                           !.ok = TRUE,
                           !.done = TRUE,
                           !.stamp = MaxStamp(CacheTasks) + 1,
                           !.stored_at = cacheNow[t]]]
         ELSE fetchCall
    /\ CacheReturn(t)
    /\ UNCHANGED <<wall, overflow_checks, cacheOps>>

\* cleanup_cache, first statement: now is read before the write lock is
\* asked for.
CleanupCacheNow(t) ==
    /\ cachePc[t] = "idle"
    /\ cacheOps < MaxCacheOps
    /\ cacheOps' = cacheOps + 1
    /\ cachePc' = [cachePc EXCEPT ![t] = "sweeping"]
    /\ cacheVia' = [cacheVia EXCEPT ![t] = "direct"]
    /\ cacheNow' = [cacheNow EXCEPT ![t] = wall]
    /\ UNCHANGED <<cache, wall, overflow_checks, cacheUrl, cacheData, cacheTtl,
                   cacheEv, fetchCall>>

\* cleanup_cache, the rest: the retain under the write lock.
CleanupCacheRetain(t) ==
    /\ cachePc[t] = "sweeping"
    /\ IF overflow_checks /\ \E k \in DOMAIN cache : underflows(cacheNow[t], cache[k])
       THEN /\ cachePc' = [cachePc EXCEPT ![t] = "panicked"]
            /\ cache' \in cleanup_cache_panicked(cache, cacheNow[t])
            /\ cacheEv' = CacheEvent("cleanup", "u1", cacheNow[t], None, TRUE, FALSE)
       ELSE /\ cachePc' = [cachePc EXCEPT ![t] = "idle"]
            /\ cache' = cleanup_cache(cache, cacheNow[t])
            /\ cacheEv' = CacheEvent("cleanup", "u1", cacheNow[t], None, FALSE, FALSE)
    /\ CacheReturn(t)
    /\ UNCHANGED <<wall, overflow_checks, cacheOps, fetchCall>>

\* cache_stats: the read lock is taken, then now is read.
CacheStats(t) ==
    /\ cachePc[t] = "idle"
    /\ cacheOps < MaxCacheOps
    /\ cacheOps' = cacheOps + 1
    /\ IF overflow_checks /\ \E k \in DOMAIN cache : underflows(wall, cache[k])
       THEN /\ cachePc' = [cachePc EXCEPT ![t] = "panicked"]
            /\ cacheEv' = CacheEvent("stats", "u1", wall, None, TRUE, FALSE)
       ELSE /\ cachePc' = cachePc
            /\ cacheEv' = CacheEvent("stats", "u1", wall,
                                     cache_stats(cache, wall), FALSE, FALSE)
    /\ UNCHANGED <<cache, wall, overflow_checks, cacheVia, cacheUrl, cacheData,
                   cacheTtl, cacheNow, fetchCall>>

\* The calls other than t's that are between their miss and their write
\* for url.
InFlight(t, url) ==
    {u \in CacheTasks \ {t} :
        /\ cachePc[u] \in {"awaiting", "storing"}
        /\ cacheVia[u] = "fetch"
        /\ cacheUrl[u] = url}

\* The requests a call sends after its miss, given the calls in flight for
\* the same url: it does not look at them.
fetch_with_cache_fetches_SingleFlight(inflight) == IF inflight = {} THEN 1 ELSE 0

fetch_with_cache_fetches(inflight) == 1

\* fetch_with_cache up to its first await of the network: get_from_cache,
\* then either return Ok(cached) or send the request.
FetchWithCacheGet(t, url) ==
    /\ cachePc[t] = "idle"
    /\ cacheOps < MaxFetchCalls
    /\ cacheOps' = cacheOps + 1
    /\ IF overflow_checks /\ get_from_cache_panics(cache, url, wall)
       THEN /\ cachePc' = [cachePc EXCEPT ![t] = "panicked"]
            /\ cache' = cache
            /\ cacheEv' = CacheEvent("get", url, wall, None, TRUE, FALSE)
            /\ fetchCall' = [fetchCall EXCEPT ![t] = [NoCall EXCEPT !.url = url]]
            /\ UNCHANGED <<cacheVia, cacheUrl>>
       ELSE /\ cache' = get_from_cache_cache(cache, url, wall)
            /\ cacheEv' = CacheEvent("get", url, wall,
                                     get_from_cache(cache, url, wall), FALSE, FALSE)
            /\ IF get_from_cache(cache, url, wall) # None
               THEN /\ fetchCall' = [fetchCall EXCEPT ![t] =
                           [NoCall EXCEPT !.url = url,
                                          !.result = get_from_cache(cache, url, wall),
                                          !.ok = TRUE,
                                          !.done = TRUE]]
                    /\ UNCHANGED <<cachePc, cacheVia, cacheUrl>>
               ELSE /\ fetchCall' =
                         [u \in CacheTasks |->
                            IF u = t
                            THEN [NoCall EXCEPT !.url = url,
                                                !.missed = TRUE,
                                                !.fetches =
                                                    fetch_with_cache_fetches(
                                                        InFlight(t, url)),
                                                !.raced = InFlight(t, url) # {}]
                            ELSE IF u \in InFlight(t, url)
                                 THEN [fetchCall[u] EXCEPT !.raced = TRUE]
                                 ELSE fetchCall[u]]
                    /\ cachePc' = [cachePc EXCEPT ![t] = "awaiting"]
                    /\ cacheVia' = [cacheVia EXCEPT ![t] = "fetch"]
                    /\ cacheUrl' = [cacheUrl EXCEPT ![t] = url]
    /\ UNCHANGED <<wall, overflow_checks, cacheData, cacheTtl, cacheNow>>

\* The response and its text arrive; store_in_cache(url, &content, 300) is
\* called and reads now.
FetchResponse(t, content) ==
    /\ cachePc[t] = "awaiting"
    /\ cachePc' = [cachePc EXCEPT ![t] = "storing"]
    /\ cacheData' = [cacheData EXCEPT ![t] = content]
    /\ cacheTtl' = [cacheTtl EXCEPT ![t] = CACHE_TTL]
    /\ cacheNow' = [cacheNow EXCEPT ![t] = wall]
    /\ UNCHANGED <<cache, wall, overflow_checks, cacheVia, cacheUrl, cacheOps,
                   cacheEv, fetchCall>>

\* send() or text() fails and the ? operator returns the error.
FetchError(t) ==
    /\ cachePc[t] = "awaiting"
    /\ cachePc' = [cachePc EXCEPT ![t] = "idle"]
    /\ fetchCall' = [fetchCall EXCEPT ![t] = [@ EXCEPT !.done = TRUE]]
    /\ cacheEv' = CacheEvent("fetch_err", cacheUrl[t], 0, None, FALSE, FALSE)
    /\ cache' = fetch_error_cache(cache, cacheUrl[t], wall)
    /\ CacheReturn(t)
    /\ UNCHANGED <<wall, overflow_checks, cacheOps>>

\* The wall clock is at another second: time passed, or the clock was set.
WallSet(w) ==
    /\ w # wall
    /\ wall' = w
    /\ UNCHANGED <<cache, overflow_checks, cachePc, cacheVia, cacheUrl,
                   cacheData, cacheTtl, cacheNow, cacheOps, cacheEv, fetchCall>>

\* --------------------------------------------------- AsyncTaskScheduler
\* A task id "task_<n>" is modelled by the number n; the Instants in
\* started_at and completed_at by whether they are set.
TaskInfo(id, status, started_at, completed_at) ==
    [id |-> id, status |-> status, started_at |-> started_at,
     completed_at |-> completed_at]

\* tasks.iter_mut().find(|t| t.id == task_id): the index of the first task
\* with the id from index i on, 0 when there is none.
RECURSIVE FindTaskFrom(_, _, _)
FindTaskFrom(ts, id, i) ==
    IF i > Len(ts)
    THEN 0
    ELSE IF ts[i].id = id THEN i ELSE FindTaskFrom(ts, id, i + 1)

find_task_First(ts, id) == IF Len(ts) > 0 THEN 1 ELSE 0

find_task(ts, id) == FindTaskFrom(ts, id, 1)

\* The body's update to Running.
mark_running_Pending(ts, id) == ts

\* The update put behind the first call of the work.
mark_running_Late(ts, id) ==
    IF find_task(ts, id) = 0 \/ invoked[id] = 0
    THEN ts
    ELSE [ts EXCEPT ![find_task(ts, id)] =
            TaskInfo(@.id, "Running", "Some", @.completed_at)]

mark_running(ts, id) ==
    IF find_task(ts, id) = 0
    THEN ts
    ELSE [ts EXCEPT ![find_task(ts, id)] =
            TaskInfo(@.id, "Running", "Some", @.completed_at)]

\* The Instants of a record.
Instants(created_at, started_at, completed_at) ==
    [created_at |-> created_at, started_at |-> started_at,
     completed_at |-> completed_at]

\* created_at: Instant::now() in the TaskInfo literal.
stamp_created(st, id, now) == [st EXCEPT ![id] = Instants(now, 0, 0)]

\* started_at = Some(Instant::now()), in the body's update to Running;
\* first with an Instant from before the scheduler's first registration.
stamp_started_Stale(ts, st, id, now) ==
    [st EXCEPT ![id] = Instants(@.created_at, 0, @.completed_at)]

stamp_started(ts, st, id, now) ==
    IF find_task(ts, id) = 0
    THEN st
    ELSE [st EXCEPT ![id] = Instants(@.created_at, now, @.completed_at)]

\* completed_at = Some(Instant::now()), in the update to Completed.
stamp_completed(ts, st, id, now) ==
    IF find_task(ts, id) = 0
    THEN st
    ELSE [st EXCEPT ![id] = Instants(@.created_at, @.started_at, now)]

\* The one-time body's update to Completed.
mark_completed(ts, id) ==
    IF find_task(ts, id) = 0
    THEN ts
    ELSE [ts EXCEPT ![find_task(ts, id)] =
            TaskInfo(@.id, "Completed", @.started_at, "Some")]

\* generate_task_id: *counter += 1
generate_task_id_Same(counter) == IF counter = 0 THEN 1 ELSE counter

generate_task_id(counter) == counter + 1

\* Whether sleep(delay), or the interval's tick, is over.
timer_over_Always(timer) == TRUE

timer_over(timer) == timer = 0

\* AsyncTaskScheduler::new
SchedInit ==
    /\ tasks = <<>>
    /\ running_tasks = <<>>
    /\ task_counter = 0
    /\ regPc = [r \in Registrants |-> "idle"]
    /\ regId = [r \in Registrants |-> 0]
    /\ regKind = [r \in Registrants |-> "one_time"]
    /\ regDelay = [r \in Registrants |-> 0]
    /\ bodyPc = [id \in TaskIds |-> "none"]
    /\ bodyKind = [id \in TaskIds |-> "one_time"]
    /\ bodyDelay = [id \in TaskIds |-> 0]
    /\ bodyTimer = [id \in TaskIds |-> 0]
    /\ invoked = [id \in TaskIds |-> 0]
    /\ issued = <<>>
    /\ returnedIds = <<>>
    /\ joinPc = "idle"
    /\ joinIdx = 0
    /\ joinTracked = <<>>
    /\ instant = 0
    /\ instants = [id \in TaskIds |-> Instants(0, 0, 0)]

\* No scheduler in use.
SchedQuiet == SchedInit

\* add_periodic_task / add_one_time_task, first statement: generate_task_id,
\* under the write lock of task_counter.
AddTaskGenerateId(r, kind, delay) ==
    /\ regPc[r] = "idle"
    /\ task_counter < MaxTasks
    /\ task_counter' = generate_task_id(task_counter)
    /\ issued' = Append(issued, generate_task_id(task_counter))
    /\ regPc' = [regPc EXCEPT ![r] = "registering"]
    /\ regId' = [regId EXCEPT ![r] = generate_task_id(task_counter)]
    /\ regKind' = [regKind EXCEPT ![r] = kind]
    /\ regDelay' = [regDelay EXCEPT ![r] = delay]
    /\ UNCHANGED <<tasks, running_tasks, bodyPc, bodyKind, bodyDelay, bodyTimer,
                   invoked, returnedIds>>
    /\ instants' = stamp_created(instants, generate_task_id(task_counter), instant)
    /\ UNCHANGED instant

\* The TaskInfo is pushed under the write lock of tasks, Pending, and the
\* body is given to tokio::spawn.
AddTaskPushAndSpawn(r) ==
    /\ regPc[r] = "registering"
    /\ tasks' = Append(tasks, TaskInfo(regId[r], "Pending", "None", "None"))
    /\ bodyPc' = [bodyPc EXCEPT ![regId[r]] = "spawned"]
    /\ bodyKind' = [bodyKind EXCEPT ![regId[r]] = regKind[r]]
    /\ bodyDelay' = [bodyDelay EXCEPT ![regId[r]] =
                        IF regKind[r] = "periodic" THEN regDelay[r] ELSE 0]
    /\ bodyTimer' = [bodyTimer EXCEPT ![regId[r]] =
                        IF regKind[r] = "one_time" THEN regDelay[r] ELSE 0]
    /\ regPc' = [regPc EXCEPT ![r] = "spawned"]
    /\ UNCHANGED <<running_tasks, task_counter, regId, regKind, regDelay,
                   invoked, issued, returnedIds>>
    /\ UNCHANGED clockVars

\* The handle is pushed under the write lock of running_tasks, which no
\* reader may hold, and the call returns Ok(task_id).
AddTaskPushHandle(r) ==
    /\ regPc[r] = "spawned"
    /\ joinPc # "waiting"
    /\ running_tasks' = Append(running_tasks, regId[r])
    /\ returnedIds' = Append(returnedIds, regId[r])
    /\ regPc' = [regPc EXCEPT ![r] = "idle"]
    /\ regId' = [regId EXCEPT ![r] = 0]
    /\ regKind' = [regKind EXCEPT ![r] = "one_time"]
    /\ regDelay' = [regDelay EXCEPT ![r] = 0]
    /\ UNCHANGED <<tasks, task_counter, bodyPc, bodyKind, bodyDelay, bodyTimer,
                   invoked, issued>>
    /\ UNCHANGED clockVars

\* The one-time body after sleep(delay): the update to Running.
OneTimeStart(id) ==
    /\ bodyPc[id] = "spawned"
    /\ bodyKind[id] = "one_time"
    /\ timer_over(bodyTimer[id])
    /\ tasks' = mark_running(tasks, id)
    /\ bodyPc' = [bodyPc EXCEPT ![id] = "running"]
    /\ UNCHANGED <<running_tasks, task_counter, regPc, regId, regKind, regDelay,
                   bodyKind, bodyDelay, bodyTimer, invoked, issued,
                   returnedIds>>
    /\ instants' = stamp_started(tasks, instants, id, instant)
    /\ UNCHANGED instant

\* The one-time body calls task(), which returns or panics.
OneTimeWork(id, returns) ==
    /\ bodyPc[id] = "running"
    /\ invoked' = [invoked EXCEPT ![id] = @ + 1]
    /\ bodyPc' = [bodyPc EXCEPT ![id] = IF returns THEN "worked" ELSE "panicked"]
    /\ UNCHANGED <<tasks, running_tasks, task_counter, regPc, regId, regKind,
                   regDelay, bodyKind, bodyDelay, bodyTimer, issued,
                   returnedIds>>
    /\ UNCHANGED clockVars

\* The one-time body's update to Completed, after which it ends.
OneTimeComplete(id) ==
    /\ bodyPc[id] = "worked"
    /\ tasks' = mark_completed(tasks, id)
    /\ bodyPc' = [bodyPc EXCEPT ![id] = "finished"]
    /\ UNCHANGED <<running_tasks, task_counter, regPc, regId, regKind, regDelay,
                   bodyKind, bodyDelay, bodyTimer, invoked, issued,
                   returnedIds>>
    /\ instants' = stamp_completed(tasks, instants, id, instant)
    /\ UNCHANGED instant

\* The periodic body up to its loop: tokio::time::interval, which panics
\* on a zero period, then the update to Running.
PeriodicStart(id) ==
    /\ bodyPc[id] = "spawned"
    /\ bodyKind[id] = "periodic"
    /\ IF bodyDelay[id] = 0
       THEN /\ bodyPc' = [bodyPc EXCEPT ![id] = "panicked"]
            /\ tasks' = tasks
       ELSE /\ bodyPc' = [bodyPc EXCEPT ![id] = "ticking"]
            /\ tasks' = mark_running(tasks, id)
    /\ UNCHANGED <<running_tasks, task_counter, regPc, regId, regKind, regDelay,
                   bodyKind, bodyDelay, bodyTimer, invoked, issued,
                   returnedIds>>
    /\ instants' = IF bodyDelay[id] = 0
                   THEN instants
                   ELSE stamp_started(tasks, instants, id, instant)
    /\ UNCHANGED instant

\* One round of the periodic body's loop, which never ends by itself: the
\* tick is over, the first at once, and task() is called, which returns or
\* panics.
PeriodicWork(id, returns) ==
    /\ bodyPc[id] = "ticking"
    /\ timer_over(bodyTimer[id])
    /\ invoked' = [invoked EXCEPT ![id] = IF @ < MaxRuns THEN @ + 1 ELSE @]
    /\ bodyTimer' = [bodyTimer EXCEPT ![id] = bodyDelay[id]]
    /\ bodyPc' = [bodyPc EXCEPT ![id] = IF returns THEN "ticking" ELSE "panicked"]
    /\ UNCHANGED <<tasks, running_tasks, task_counter, regPc, regId, regKind,
                   regDelay, bodyKind, bodyDelay, issued, returnedIds>>
    /\ UNCHANGED clockVars

\* A tick of time passes for every sleep and interval.
SchedTick ==
    /\ \E id \in TaskIds :
          bodyPc[id] \in {"spawned", "ticking"} /\ bodyTimer[id] > 0
    /\ bodyTimer' = [id \in TaskIds |->
                        IF bodyPc[id] \in {"spawned", "ticking"} /\ bodyTimer[id] > 0
                        THEN bodyTimer[id] - 1
                        ELSE bodyTimer[id]]
    /\ UNCHANGED <<tasks, running_tasks, task_counter, regPc, regId, regKind,
                   regDelay, bodyPc, bodyKind, bodyDelay, invoked, issued,
                   returnedIds>>
    /\ UNCHANGED clockVars

\* Whether the JoinHandle of a body is ready: the body ended or panicked.
handle_finished_Always(pc) == TRUE

handle_finished(pc) == pc \in {"finished", "panicked"}

\* Time passes on the clock of Instant::now().
InstantPasses ==
    /\ instant < MaxInstant
    /\ instant' = instant + 1
    /\ UNCHANGED instants
    /\ UNCHANGED schedVars
    /\ UNCHANGED joinVars

\* get_task_info: tasks.iter().find(|t| t.id == task_id).cloned()
get_task_info_First(ts, id) == IF Len(ts) = 0 THEN None ELSE Some(ts[1])

get_task_info(ts, id) ==
    IF find_task(ts, id) = 0 THEN None ELSE Some(ts[find_task(ts, id)])

\* wait_for_all takes running_tasks.read(); the guard lives until the
\* function returns.
WaitForAllCall ==
    /\ joinPc = "idle"
    /\ joinPc' = "waiting"
    /\ joinIdx' = 1
    /\ joinTracked' = running_tasks
    /\ UNCHANGED schedVars

\* let _ = handle.await: the handle awaited is ready, whether its body
\* ended or panicked, and the loop goes on to the next one.
WaitForAllAwait ==
    /\ joinPc = "waiting"
    /\ joinIdx <= Len(running_tasks)
    /\ handle_finished(bodyPc[running_tasks[joinIdx]])
    /\ joinIdx' = joinIdx + 1
    /\ UNCHANGED <<joinPc, joinTracked>>
    /\ UNCHANGED schedVars

\* The loop is over: the guard is dropped and wait_for_all returns.
WaitForAllReturn ==
    /\ joinPc = "waiting"
    /\ joinIdx > Len(running_tasks)
    /\ joinPc' = "returned"
    /\ joinIdx' = 0
    /\ UNCHANGED joinTracked
    /\ UNCHANGED schedVars

\* ------------------------------------------------------------ TaskQueue
\* TaskPriority, ordered by its discriminants.
Low == 1
Normal == 2
High == 3
Critical == 4
TaskPriority == {Low, Normal, High, Critical}

\* A TaskInfo in the queue: the records enqueued are told apart by their
\* ids, the n-th enqueue call bringing the id n.
QueuedTask(id, priority) == [id |-> id, priority |-> priority]

\* What enqueue returns.
EnqueueOk == "Ok(())"
QueueFullError == "Err(anyhow: the task queue is full)"

\* enqueue's test: if let Some(max_size) = self.max_size, queue.len() >= max_size
is_full_Never(q, max) == FALSE

is_full(q, max) == max # None /\ Len(q) >= max[1]

\* Vec::pop: the last element, and the rest.
pop(q) == IF q = <<>> THEN None ELSE Some(q[Len(q)])
pop_rest(q) == IF q = <<>> THEN q ELSE SubSeq(q, 1, Len(q) - 1)

\* The place of x in a sequence sorted by |a, b| b.priority.cmp(&a.priority):
\* behind every element that does not compare greater, that is behind
\* every element of a priority at least its own.
RECURSIVE InsertByPriority(_, _, _)
InsertByPriority(sorted, x, i) ==
    IF i <= Len(sorted) /\ sorted[i].priority >= x.priority
    THEN InsertByPriority(sorted, x, i + 1)
    ELSE SubSeq(sorted, 1, i - 1) \o <<x>> \o SubSeq(sorted, i, Len(sorted))

\* queue.sort_by(|a, b| b.priority.cmp(&a.priority)): a stable sort, the
\* priorities descending.
RECURSIVE SortFrom(_, _, _)
SortFrom(q, i, sorted) ==
    IF i > Len(q)
    THEN sorted
    ELSE SortFrom(q, i + 1, InsertByPriority(sorted, q[i], 1))

sort_by_priority(q) == SortFrom(q, 1, <<>>)

\* TaskQueue::new or TaskQueue::with_max_size
QueueInit ==
    /\ queue = <<>>
    /\ max_size \in {None} \cup {Some(c) : c \in 0..MaxCapacity}
    /\ qCalls = 0
    /\ qOp = "none"
    /\ qResult = None

\* No queue in use.
QueueQuiet ==
    /\ queue = <<>>
    /\ max_size = None
    /\ qCalls = 0
    /\ qOp = "none"
    /\ qResult = None

\* enqueue, all of it under the write lock of queue.
Enqueue(priority) ==
    /\ qCalls < MaxEnqueues
    /\ qCalls' = qCalls + 1
    /\ IF is_full(queue, max_size)
       THEN /\ queue' = queue
            /\ qResult' = QueueFullError
       ELSE /\ queue' = Append(queue, QueuedTask(qCalls + 1, priority))
            /\ qResult' = EnqueueOk
    /\ qOp' = "enqueue"
    /\ UNCHANGED max_size

\* dequeue, under the write lock of queue: queue.pop()
Dequeue ==
    /\ queue' = pop_rest(queue)
    /\ qResult' = pop(queue)
    /\ qOp' = "dequeue"
    /\ UNCHANGED <<max_size, qCalls>>

\* dequeue_by_priority, under the write lock of queue: None when the
\* queue is empty, else the queue is sorted and popped.
DequeueByPriority ==
    /\ IF queue = <<>>
       THEN /\ queue' = queue
            /\ qResult' = None
       ELSE /\ queue' = pop_rest(sort_by_priority(queue))
            /\ qResult' = pop(sort_by_priority(queue))
    /\ qOp' = "dequeue_by_priority"
    /\ UNCHANGED <<max_size, qCalls>>

\* ----------------------------------------- AsyncDatabase record store
\* The ids and names of the users given to the operations.
UserIds == {"a", "b"}
UserNames == {"n1", "n2"}

\* A User: its id and, for the rest of its fields, its name.
User(id, name) == [id |-> id, name |-> name]
Users == {User(id, name) : id \in UserIds, name \in UserNames}

\* DatabaseOperation
Create(user) == [kind |-> "Create", id |-> user.id, user |-> user]
Update(user) == [kind |-> "Update", id |-> user.id, user |-> user]
Delete(id) == [kind |-> "Delete", id |-> id, user |-> User(id, "n1")]
DatabaseOperation ==
    {Create(u) : u \in Users} \cup {Update(u) : u \in Users}
        \cup {Delete(id) : id \in UserIds}

\* What the operations on users return.
UserOk == "Ok(())"
UserNotFound == "Err(anyhow: the user does not exist)"

NoUsers == [id \in {} |-> User("a", "n1")]

\* HashMap::insert and HashMap::remove
insert(d, user) ==
    [id \in DOMAIN d \cup {user.id} |-> IF id = user.id THEN user ELSE d[id]]
remove(d, id) == [k \in DOMAIN d \ {id} |-> d[k]]

\* find_user: data.get(id).cloned()
find_user(d, id) == IF id \in DOMAIN d THEN Some(d[id]) ELSE None

\* create_user
create_user(d, user) == insert(d, user)

\* update_user: the data it leaves and what it returns.
update_user_Upsert(d, user) == insert(d, user)

update_user(d, user) == IF user.id \in DOMAIN d THEN insert(d, user) ELSE d

update_user_result(d, user) ==
    IF user.id \in DOMAIN d THEN UserOk ELSE UserNotFound

\* delete_user
delete_user(d, id) == remove(d, id)

\* One DatabaseOperation as Transaction::commit and batch_operations run
\* it: the data it leaves and what it returns.
apply_operation(d, op) ==
    IF op.kind = "Create" THEN create_user(d, op.user)
    ELSE IF op.kind = "Update" THEN update_user(d, op.user)
    ELSE delete_user(d, op.id)

apply_operation_result(d, op) ==
    IF op.kind = "Update" THEN update_user_result(d, op.user) ELSE UserOk

StoreEvent(op, id, user, result) ==
    [op |-> op, id |-> id, user |-> user, result |-> result]

\* AsyncDatabase::new
StoreInit ==
    /\ db_data = NoUsers
    /\ storeOps = 0
    /\ storeEv = StoreEvent("none", "a", User("a", "n1"), None)
    /\ txPc = "none"
    /\ txOps = <<>>
    /\ txBefore = NoUsers

\* No record store in use.
StoreQuiet == StoreInit

\* A direct call of create_user, under the write lock of data.
CreateUser(user) ==
    /\ txPc = "none"
    /\ storeOps < MaxStoreOps
    /\ storeOps' = storeOps + 1
    /\ db_data' = create_user(db_data, user)
    /\ storeEv' = StoreEvent("create", user.id, user, UserOk)
    /\ UNCHANGED <<txPc, txOps, txBefore>>

\* A direct call of update_user, under the write lock of data.
UpdateUser(user) ==
    /\ txPc = "none"
    /\ storeOps < MaxStoreOps
    /\ storeOps' = storeOps + 1
    /\ db_data' = update_user(db_data, user)
    /\ storeEv' = StoreEvent("update", user.id, user,
                             update_user_result(db_data, user))
    /\ UNCHANGED <<txPc, txOps, txBefore>>

\* A direct call of delete_user, under the write lock of data.
DeleteUser(id) ==
    /\ txPc = "none"
    /\ storeOps < MaxStoreOps
    /\ storeOps' = storeOps + 1
    /\ db_data' = delete_user(db_data, id)
    /\ storeEv' = StoreEvent("delete", id, User(id, "n1"), UserOk)
    /\ UNCHANGED <<txPc, txOps, txBefore>>

\* A direct call of find_user, under the read lock of data.
FindUser(id) ==
    /\ txPc = "none"
    /\ storeOps < MaxStoreOps
    /\ storeOps' = storeOps + 1
    /\ storeEv' = StoreEvent("find", id, User(id, "n1"), find_user(db_data, id))
    /\ UNCHANGED <<db_data, txPc, txOps, txBefore>>

\* transaction: Transaction::new, and the closure starts.
TxBegin ==
    /\ txPc = "none"
    /\ txPc' = "building"
    /\ txOps' = <<>>
    /\ txBefore' = db_data
    /\ UNCHANGED <<db_data, storeOps, storeEv>>

\* The closure calls add_operation.
TxAddOperation(op) ==
    /\ txPc = "building"
    /\ Len(txOps) < MaxTxOps
    /\ txOps' = Append(txOps, op)
    /\ UNCHANGED <<db_data, storeOps, storeEv, txPc, txBefore>>

\* The closure returns: Err is passed on by the ? operator and commit is
\* never called, Ok leads to tx.commit().
TxClosureReturns(ok) ==
    /\ txPc = "building"
    /\ txPc' = IF ok THEN "committing" ELSE "failed"
    /\ txOps' = IF ok THEN txOps ELSE <<>>
    /\ UNCHANGED <<db_data, storeOps, storeEv, txBefore>>

\* One round of commit's loop: the next operation is run under the write
\* lock of data, and its Err ends commit by the ? operator; after the last
\* one commit returns Ok(()).
TxCommitStep ==
    /\ txPc = "committing"
    /\ IF txOps = <<>>
       THEN /\ txPc' = "committed"
            /\ UNCHANGED <<db_data, txOps>>
       ELSE /\ db_data' = apply_operation(db_data, Head(txOps))
            /\ IF apply_operation_result(db_data, Head(txOps)) = UserOk
               THEN txPc' = txPc /\ txOps' = Tail(txOps)
               ELSE txPc' = "failed" /\ txOps' = <<>>
    /\ UNCHANGED <<storeOps, storeEv, txBefore>>

\* transaction has returned and its caller goes on.
TxReturn ==
    /\ txPc \in {"committed", "failed"}
    /\ txPc' = "none"
    /\ txBefore' = NoUsers
    /\ UNCHANGED <<db_data, storeOps, storeEv, txOps>>

\* -------------------------------------------------------- ConfigManager
\* The tasks calling the ConfigManager and the configurations they bring.
ConfigTasks == {"c1", "c2"}
AppConfigs == {"default", "changed"}

ConfigEvent(op, ok, notified, result) ==
    [op |-> op, ok |-> ok, notified |-> notified, result |-> result]

\* ConfigManager::new
ConfigInit ==
    /\ config = "default"
    /\ watchers = 0
    /\ cfgWriter = "none"
    /\ cfgPc = [t \in ConfigTasks |-> "idle"]
    /\ cfgOp = [t \in ConfigTasks |-> "none"]
    /\ cfgArg = [t \in ConfigTasks |-> "default"]
    /\ cfgCalls = 0
    /\ cfgEv = ConfigEvent("none", TRUE, 0, "default")

\* No ConfigManager in use.
ConfigQuiet == ConfigInit

\* add_watcher, under the write lock of watchers.
AddWatcher ==
    /\ watchers < MaxWatchers
    /\ watchers' = watchers + 1
    /\ UNCHANGED <<config, cfgWriter, cfgPc, cfgOp, cfgArg, cfgCalls, cfgEv>>

\* get_config is called and asks for config.read().
GetConfigCall(t) ==
    /\ cfgPc[t] = "idle"
    /\ cfgCalls < MaxConfigCalls
    /\ cfgCalls' = cfgCalls + 1
    /\ cfgPc' = [cfgPc EXCEPT ![t] = "want_read"]
    /\ cfgOp' = [cfgOp EXCEPT ![t] = "get_config"]
    /\ UNCHANGED <<config, watchers, cfgWriter, cfgArg, cfgEv>>

\* update_config(updater) is called and asks for config.write().
UpdateConfigCall(t, new) ==
    /\ cfgPc[t] = "idle"
    /\ cfgCalls < MaxConfigCalls
    /\ cfgCalls' = cfgCalls + 1
    /\ cfgPc' = [cfgPc EXCEPT ![t] = "want_write"]
    /\ cfgOp' = [cfgOp EXCEPT ![t] = "update_config"]
    /\ cfgArg' = [cfgArg EXCEPT ![t] = new]
    /\ UNCHANGED <<config, watchers, cfgWriter, cfgEv>>

\* load_from_file(path) is called: reading or parsing the file fails and
\* the ? operator returns the error, or it asks for config.write().
LoadFromFileCall(t, new, parsed) ==
    /\ cfgPc[t] = "idle"
    /\ cfgCalls < MaxConfigCalls
    /\ cfgCalls' = cfgCalls + 1
    /\ IF parsed
       THEN /\ cfgPc' = [cfgPc EXCEPT ![t] = "want_write"]
            /\ cfgOp' = [cfgOp EXCEPT ![t] = "load_from_file"]
            /\ cfgArg' = [cfgArg EXCEPT ![t] = new]
            /\ cfgEv' = cfgEv
       ELSE /\ cfgEv' = ConfigEvent("load_from_file", FALSE, 0, config)
            /\ UNCHANGED <<cfgPc, cfgOp, cfgArg>>
    /\ UNCHANGED <<config, watchers, cfgWriter>>

\* config.write().await returns its guard, which no other guard of config
\* may be alive for: the configuration is applied and notify_watchers is
\* called, which asks for config.read() with the write guard still alive.
ConfigWriteGranted(t) ==
    /\ cfgPc[t] = "want_write"
    /\ cfgWriter = "none"
    /\ cfgWriter' = t
    /\ config' = cfgArg[t]
    /\ cfgPc' = [cfgPc EXCEPT ![t] = "want_read"]
    /\ UNCHANGED <<watchers, cfgOp, cfgArg, cfgCalls, cfgEv>>

\* config.read().await returns its guard, which no write guard may be
\* alive for: get_config clones the configuration and returns;
\* notify_watchers calls every watcher once, and the function that called
\* it returns Ok(()) and drops its write guard.
ConfigReadGranted(t) ==
    /\ cfgPc[t] = "want_read"
    /\ cfgWriter = "none"
    /\ cfgEv' = IF cfgOp[t] = "get_config"
                THEN ConfigEvent("get_config", TRUE, 0, config)
                ELSE ConfigEvent(cfgOp[t], TRUE, watchers, config)
    /\ cfgPc' = [cfgPc EXCEPT ![t] = "idle"]
    /\ cfgOp' = [cfgOp EXCEPT ![t] = "none"]
    /\ cfgArg' = [cfgArg EXCEPT ![t] = "default"]
    /\ cfgWriter' = IF cfgOp[t] = "get_config" THEN cfgWriter ELSE "none"
    /\ UNCHANGED <<config, watchers, cfgCalls>>

\* --------------------------------------------------------- ResourcePool
\* The permits the Semaphore has when acquire returns: the permit acquire
\* got is bound to the local _permit and dropped at the end of acquire.
permits_after_acquire(n) == n - 1 + 1

\* ResourcePool::new(max_resources)
ResourceInit ==
    /\ max_resources \in 0..MaxResources
    /\ permits = max_resources
    /\ next_id = 1
    /\ held = {}

\* No ResourcePool in use.
ResourceQuiet ==
    /\ max_resources = 0
    /\ permits = 0
    /\ next_id = 1
    /\ held = {}

\* acquire: resources.acquire().await returns a permit when there is one,
\* next_id.fetch_add(1) gives the id, and Resource { id } is returned.
ResourceAcquire ==
    /\ next_id <= MaxResourceAcquires
    /\ permits >= 1
    /\ permits' = permits_after_acquire(permits)
    /\ next_id' = next_id + 1
    /\ held' = held \cup {next_id}
    /\ UNCHANGED max_resources

\* release(resource): the body is empty, the Resource is dropped.
ResourceRelease(id) ==
    /\ id \in held
    /\ held' = held \ {id}
    /\ UNCHANGED <<max_resources, permits, next_id>>

\* ------------------------------------ fetch_with_retry and with_retry
RetryOps == {"fetch_with_retry", "with_retry", "with_retry_timeout"}

\* What one invocation of the operation gives: a value, an error, or, when
\* with_retry runs it under timeout(), the Elapsed of the timer.
RetryErrors == {"e1", "e2"}
AttemptOk == [ok |-> TRUE, value |-> "value"]
AttemptErr(err) == [ok |-> FALSE, value |-> err]
Elapsed == AttemptErr("elapsed")
AttemptOutcomes(op) ==
    {AttemptOk} \cup {AttemptErr(err) : err \in RetryErrors}
        \cup (IF op = "with_retry_timeout" THEN {Elapsed} ELSE {})

\* What the call gives its caller: Ok(value), Err(e), or the panic of
\* unwrap() on None; "none" while the call runs.
RetryOk(v) == [kind |-> "Ok", value |-> v]
RetryErr(err) == [kind |-> "Err", value |-> err]
RetryPanic == [kind |-> "panic", value |-> "unwrap on None"]
RetryRunning == [kind |-> "none", value |-> "none"]

\* Err(last_error.unwrap()) after the loop.
unwrap_last_error(le) ==
    IF le = "none" THEN RetryPanic ELSE RetryErr(le)

\* A call of fetch_with_retry(url, max_retries) or of
\* with_retry(operation, config): let mut last_error = None.
RetryInit ==
    /\ retryOp \in RetryOps
    /\ max_attempts \in 0..MaxRetries
    /\ attempt = 0
    /\ last_error = "none"
    /\ retryPc = "loop"
    /\ attempts = 0
    /\ sleeps = <<>>
    /\ retryResult = RetryRunning

\* No retry call in progress.
RetryQuiet ==
    /\ retryOp = "fetch_with_retry"
    /\ max_attempts = 0
    /\ attempt = 0
    /\ last_error = "none"
    /\ retryPc = "idle"
    /\ attempts = 0
    /\ sleeps = <<>>
    /\ retryResult = RetryRunning

\* for attempt in 1..=max: the next round starts, or the range is exhausted
\* and the call ends with Err(last_error.unwrap()).
RetryLoop ==
    /\ retryPc = "loop"
    /\ IF attempt < max_attempts
         THEN /\ attempt' = attempt + 1
              /\ retryPc' = "attempting"
              /\ UNCHANGED retryResult
         ELSE /\ retryResult' = unwrap_last_error(last_error)
              /\ retryPc' = "done"
              /\ UNCHANGED attempt
    /\ UNCHANGED <<retryOp, max_attempts, last_error, attempts, sleeps>>

\* One round: the operation is invoked and its result matched. Ok returns
\* at once; Err is kept in last_error and is followed by a sleep unless
\* this was the last round; the Elapsed of timeout() leaves through ?.
RetryAttempt(outcome) ==
    /\ retryPc = "attempting"
    /\ outcome \in AttemptOutcomes(retryOp)
    /\ attempts' = attempts + 1
    /\ IF outcome.ok
         THEN /\ retryResult' = RetryOk(outcome.value)
              /\ retryPc' = "done"
              /\ UNCHANGED last_error
         ELSE IF outcome = Elapsed
         THEN /\ retryResult' = RetryErr(outcome.value)
              /\ retryPc' = "done"
              /\ UNCHANGED last_error
         ELSE /\ last_error' = outcome.value
              /\ retryPc' = IF attempt < max_attempts THEN "sleeping" ELSE "loop"
              /\ UNCHANGED retryResult
    /\ UNCHANGED <<retryOp, max_attempts, attempt, sleeps>>

\* tokio::time::sleep(delay).await between two rounds.
RetrySleep ==
    /\ retryPc = "sleeping"
    /\ sleeps' = Append(sleeps, attempt)
    /\ retryPc' = "loop"
    /\ UNCHANGED <<retryOp, max_attempts, attempt, last_error, attempts,
                   retryResult>>

\* ----------------------------------------------------- lock discipline
\* Each operation as the sequence of its lock acquisitions, guard drops
\* and awaits of something other than a lock, in program order.  A loop
\* body is written once.
Acq(l, m) == [k |-> "acq", lock |-> l, mode |-> m]
Rel(l) == [k |-> "rel", lock |-> l, mode |-> "-"]
Susp(what) == [k |-> "susp", lock |-> what, mode |-> "-"]

\* pool
Steps_get_connection == <<Acq("connection_pool", "w"), Rel("connection_pool")>>
Steps_release_connection == <<Acq("connection_pool", "w"), Rel("connection_pool")>>
Steps_query == <<Susp("sleep"), Acq("data", "r"), Rel("data")>>
Steps_execute == <<Susp("sleep")>>
Steps_pool_get_connection ==
    <<Acq("connections", "w"), Rel("connections"),
      Acq("connection_pool", "w"), Rel("connection_pool")>>
Steps_return_connection == <<Acq("connections", "w"), Rel("connections")>>
\* cache
Steps_get_from_cache == <<Acq("cache", "r"), Rel("cache")>>
Steps_store_in_cache == <<Acq("cache", "w"), Rel("cache")>>
Steps_fetch_with_cache ==
    <<Acq("cache", "r"), Rel("cache"), Susp("send"), Susp("text"),
      Acq("cache", "w"), Rel("cache")>>
Steps_cleanup_cache == <<Acq("cache", "w"), Rel("cache")>>
Steps_cache_stats == <<Acq("cache", "r"), Rel("cache")>>
\* rate limiter
Steps_allow_request == <<Acq("requests", "w"), Rel("requests")>>
Steps_wait_for_permission ==
    <<Acq("requests", "w"), Rel("requests"), Susp("sleep")>>
\* scheduler
Steps_generate_task_id == <<Acq("task_counter", "w"), Rel("task_counter")>>
Steps_add_task ==
    Steps_generate_task_id \o
    <<Acq("tasks", "w"), Rel("tasks"),
      Acq("running_tasks", "w"), Rel("running_tasks")>>
Steps_periodic_body == <<Acq("tasks", "w"), Rel("tasks"), Susp("tick")>>
Steps_one_time_body ==
    <<Susp("sleep"), Acq("tasks", "w"), Rel("tasks"),
      Acq("tasks", "w"), Rel("tasks")>>
Steps_get_task_info == <<Acq("tasks", "r"), Rel("tasks")>>
Steps_wait_for_all == <<Acq("running_tasks", "r"), Susp("handle"), Rel("running_tasks")>>

Program ==
    [get_connection |-> Steps_get_connection,
     release_connection |-> Steps_release_connection,
     query |-> Steps_query,
     execute |-> Steps_execute,
     pool_get_connection |-> Steps_pool_get_connection,
     return_connection |-> Steps_return_connection,
     get_from_cache |-> Steps_get_from_cache,
     store_in_cache |-> Steps_store_in_cache,
     fetch_with_cache |-> Steps_fetch_with_cache,
     cleanup_cache |-> Steps_cleanup_cache,
     cache_stats |-> Steps_cache_stats,
     allow_request |-> Steps_allow_request,
     wait_for_permission |-> Steps_wait_for_permission,
     add_task |-> Steps_add_task,
     periodic_body |-> Steps_periodic_body,
     one_time_body |-> Steps_one_time_body,
     get_task_info |-> Steps_get_task_info,
     wait_for_all |-> Steps_wait_for_all]

Operations == DOMAIN Program

\* The step task t is about to take.
LkRunning(t) == lkOp[t] # "none" /\ lkIp[t] <= Len(Program[lkOp[t]])
LkStep(t) == Program[lkOp[t]][lkIp[t]]

\* tokio's RwLock: a writer excludes everyone, readers exclude writers.
LkHolders(l) == {u \in LockTasks : \E m \in {"r", "w"} : <<l, m>> \in lkHeld[u]}
LkWriters(l) == {u \in LockTasks : <<l, "w">> \in lkHeld[u]}
LkAvailable(l, m) == IF m = "w" THEN LkHolders(l) = {} ELSE LkWriters(l) = {}

LkQuiet ==
    /\ lkOp = [t \in LockTasks |-> "none"]
    /\ lkIp = [t \in LockTasks |-> 1]
    /\ lkHeld = [t \in LockTasks |-> {}]
    /\ lkSuspended = [t \in LockTasks |-> FALSE]

LkStart(t, op) ==
    /\ lkOp[t] = "none"
    /\ lkOp' = [lkOp EXCEPT ![t] = op]
    /\ lkIp' = [lkIp EXCEPT ![t] = 1]
    /\ UNCHANGED <<lkHeld, lkSuspended>>

\* lock.read().await or lock.write().await returns its guard.
LkAcquire(t) ==
    /\ LkRunning(t)
    /\ LkStep(t).k = "acq"
    /\ LkAvailable(LkStep(t).lock, LkStep(t).mode)
    /\ lkHeld' = [lkHeld EXCEPT ![t] = @ \cup {<<LkStep(t).lock, LkStep(t).mode>>}]
    /\ lkIp' = [lkIp EXCEPT ![t] = @ + 1]
    /\ UNCHANGED <<lkOp, lkSuspended>>

\* The guard goes out of scope.
LkRelease(t) ==
    /\ LkRunning(t)
    /\ LkStep(t).k = "rel"
    /\ lkHeld' = [lkHeld EXCEPT ![t] = {g \in @ : g[1] # LkStep(t).lock}]
    /\ lkIp' = [lkIp EXCEPT ![t] = @ + 1]
    /\ UNCHANGED <<lkOp, lkSuspended>>

\* The task awaits a sleep, a tick, a response or a JoinHandle and yields.
LkSuspend(t) ==
    /\ LkRunning(t)
    /\ LkStep(t).k = "susp"
    /\ ~lkSuspended[t]
    /\ lkSuspended' = [lkSuspended EXCEPT ![t] = TRUE]
    /\ UNCHANGED <<lkOp, lkIp, lkHeld>>

\* What the task awaited is ready.
LkResume(t) ==
    /\ lkSuspended[t]
    /\ lkSuspended' = [lkSuspended EXCEPT ![t] = FALSE]
    /\ lkIp' = [lkIp EXCEPT ![t] = @ + 1]
    /\ UNCHANGED <<lkOp, lkHeld>>

\* The operation returns.
LkFinish(t) ==
    /\ lkOp[t] # "none"
    /\ lkIp[t] > Len(Program[lkOp[t]])
    /\ lkOp' = [lkOp EXCEPT ![t] = "none"]
    /\ lkIp' = [lkIp EXCEPT ![t] = 1]
    /\ UNCHANGED <<lkHeld, lkSuspended>>

\* ------------------------------------------------------ specifications
\* Each specification runs one component; the others stay as constructed.
PoolFrame ==
    UNCHANGED <<rlVars, lkVars, waitVars, cacheVars, schedVars, joinVars, queueVars, clockVars,
                storeVars,
                configVars,
                resourceVars, retryVars>>
RlFrame ==
    UNCHANGED <<poolVars, lkVars, waitVars, cacheVars, schedVars, joinVars, queueVars, clockVars,
                storeVars,
                configVars,
                resourceVars, retryVars>>
LkFrame ==
    UNCHANGED <<poolVars, rlVars, waitVars, cacheVars, schedVars, joinVars, queueVars, clockVars,
                storeVars,
                configVars,
                resourceVars, retryVars>>
WaitFrame ==
    UNCHANGED <<poolVars, lkVars, cacheVars, schedVars, joinVars, queueVars, clockVars,
                storeVars,
                configVars,
                resourceVars, retryVars>>
CacheFrame ==
    UNCHANGED <<poolVars, rlVars, lkVars, waitVars, schedVars, joinVars, queueVars, clockVars,
                storeVars,
                configVars,
                resourceVars, retryVars>>
SchedFrame ==
    UNCHANGED <<poolVars, rlVars, lkVars, waitVars, cacheVars, joinVars,
                queueVars,
                storeVars,
                configVars,
                resourceVars, retryVars>>
JoinFrame ==
    UNCHANGED <<poolVars, rlVars, lkVars, waitVars, cacheVars, queueVars,
                clockVars,
                storeVars,
                configVars,
                resourceVars, retryVars>>
QueueFrame ==
    UNCHANGED <<poolVars, rlVars, lkVars, waitVars, cacheVars, schedVars,
                joinVars, clockVars,
                storeVars,
                configVars,
                resourceVars, retryVars>>
ResourceFrame ==
    UNCHANGED <<poolVars, rlVars, lkVars, waitVars, cacheVars, schedVars,
                joinVars, queueVars, clockVars, storeVars, configVars,
                retryVars>>
RetryFrame ==
    UNCHANGED <<poolVars, rlVars, lkVars, waitVars, cacheVars, schedVars,
                joinVars, queueVars, clockVars, storeVars, configVars,
                resourceVars>>
ConfigFrame ==
    UNCHANGED <<poolVars, rlVars, lkVars, waitVars, cacheVars, schedVars,
                joinVars, queueVars, clockVars, storeVars,
                resourceVars, retryVars>>
StoreFrame ==
    UNCHANGED <<poolVars, rlVars, lkVars, waitVars, cacheVars, schedVars,
                joinVars, queueVars, clockVars,
                configVars,
                resourceVars, retryVars>>
ClockFrame ==
    UNCHANGED <<poolVars, rlVars, lkVars, waitVars, cacheVars, schedVars,
                joinVars, queueVars,
                storeVars,
                configVars,
                resourceVars, retryVars>>

\* AsyncDatabase used directly by its callers.
InitDb ==
    DbInit /\ RlQuiet /\ LkQuiet /\ WaitQuiet /\ CacheQuiet /\ SchedQuiet /\ QueueQuiet
    /\ StoreQuiet /\ ConfigQuiet
    /\ ResourceQuiet
    /\ RetryQuiet

NextDb ==
    \/ DbGetConnection /\ PoolFrame
    \/ \E c \in ConnIds : DropDatabaseConnection(c) /\ PoolFrame
    \/ \E c \in ConnIds : ReleaseConnectionTask(c) /\ PoolFrame

SpecDb == InitDb /\ [][NextDb]_vars

\* ConnectionPool over its AsyncDatabase.
InitPool ==
    PoolInit /\ RlQuiet /\ LkQuiet /\ WaitQuiet /\ CacheQuiet /\ SchedQuiet /\ QueueQuiet
    /\ StoreQuiet /\ ConfigQuiet
    /\ ResourceQuiet
    /\ RetryQuiet

NextPool ==
    \/ PoolGetConnectionPop /\ PoolFrame
    \/ PoolGetConnectionEmpty /\ PoolFrame
    \/ PoolGetConnectionCreate /\ PoolFrame
    \/ \E c \in ConnIds : DropPooledConnection(c) /\ PoolFrame
    \/ \E c \in ConnIds : ReturnConnectionTask(c) /\ PoolFrame
    \/ \E c \in ConnIds : ReleaseConnectionTask(c) /\ PoolFrame

SpecPool == InitPool /\ [][NextPool]_vars

\* Tasks given to tokio::spawn are run: the runtime polls every spawned
\* task, and neither task waits for anything but an uncontended lock.
SpecPoolFair ==
    /\ SpecPool
    /\ \A c \in ConnIds : WF_vars(ReturnConnectionTask(c) /\ PoolFrame)
    /\ \A c \in ConnIds : WF_vars(ReleaseConnectionTask(c) /\ PoolFrame)

\* RateLimiter with concurrent callers of allow_request.
InitRl ==
    RlInit /\ DbInit /\ LkQuiet /\ WaitQuiet /\ CacheQuiet /\ SchedQuiet /\ QueueQuiet
    /\ StoreQuiet /\ ConfigQuiet
    /\ ResourceQuiet
    /\ RetryQuiet

NextRl ==
    \/ \E p \in Callers : AllowRequestNow(p) /\ RlFrame
    \/ \E p \in Callers : AllowRequestLocked(p) /\ RlFrame
    \/ Tick /\ RlFrame

SpecRl == InitRl /\ [][NextRl]_vars

\* The operations of the pool, the cache, the limiter and the scheduler,
\* run by concurrent tasks, with the locks each holds.
InitLocks ==
    LkQuiet /\ DbInit /\ RlQuiet /\ WaitQuiet /\ CacheQuiet /\ SchedQuiet /\ QueueQuiet
    /\ StoreQuiet /\ ConfigQuiet
    /\ ResourceQuiet
    /\ RetryQuiet

NextLocks ==
    \/ \E t \in LockTasks, op \in Operations : LkStart(t, op) /\ LkFrame
    \/ \E t \in LockTasks : LkAcquire(t) /\ LkFrame
    \/ \E t \in LockTasks : LkRelease(t) /\ LkFrame
    \/ \E t \in LockTasks : LkSuspend(t) /\ LkFrame
    \/ \E t \in LockTasks : LkResume(t) /\ LkFrame
    \/ \E t \in LockTasks : LkFinish(t) /\ LkFrame

SpecLocks == InitLocks /\ [][NextLocks]_vars

\* RateLimiter with one task calling wait_for_permission, again and again.
InitWait ==
    RlInit /\ WaitQuiet /\ DbInit /\ LkQuiet /\ CacheQuiet /\ SchedQuiet /\ QueueQuiet
    /\ StoreQuiet /\ ConfigQuiet
    /\ ResourceQuiet
    /\ RetryQuiet

NextWait ==
    \/ WaitForPermissionCall /\ WaitFrame
    \/ WaitAttemptLocked /\ WaitFrame
    \/ WaitWake /\ WaitFrame
    \/ Tick /\ UNCHANGED waitVars /\ WaitFrame

SpecWait == InitWait /\ [][NextWait]_vars

\* The runtime polls the waiting task, whose lock nobody else asks for,
\* and time passes.
SpecWaitFair ==
    /\ SpecWait
    /\ WF_vars(WaitAttemptLocked /\ WaitFrame)
    /\ WF_vars(WaitWake /\ WaitFrame)
    /\ WF_vars(Tick /\ UNCHANGED waitVars /\ WaitFrame)

\* AsyncWebServer's cache with concurrent callers of its operations.
InitCache ==
    CacheInit /\ DbInit /\ RlQuiet /\ LkQuiet /\ WaitQuiet /\ SchedQuiet /\ QueueQuiet
    /\ StoreQuiet /\ ConfigQuiet
    /\ ResourceQuiet
    /\ RetryQuiet

NextCache ==
    \/ \E t \in CacheTasks, url \in Urls : GetFromCache(t, url) /\ CacheFrame
    \/ \E t \in CacheTasks, url \in Urls, data \in Contents, ttl \in Ttls :
          StoreInCacheNow(t, url, data, ttl) /\ CacheFrame
    \/ \E t \in CacheTasks : StoreInCacheInsert(t) /\ CacheFrame
    \/ \E t \in CacheTasks : CleanupCacheNow(t) /\ CacheFrame
    \/ \E t \in CacheTasks : CleanupCacheRetain(t) /\ CacheFrame
    \/ \E t \in CacheTasks : CacheStats(t) /\ CacheFrame
    \/ \E w \in WallTimes : WallSet(w) /\ CacheFrame

SpecCache == InitCache /\ [][NextCache]_vars

\* AsyncWebServer with concurrent callers of fetch_with_cache, as
\* process_multiple_requests spawns them.
NextFetch ==
    \/ \E t \in CacheTasks, url \in Urls : FetchWithCacheGet(t, url) /\ CacheFrame
    \/ \E t \in CacheTasks, content \in Contents :
          FetchResponse(t, content) /\ CacheFrame
    \/ \E t \in CacheTasks : FetchError(t) /\ CacheFrame
    \/ \E t \in CacheTasks : StoreInCacheInsert(t) /\ CacheFrame
    \/ \E w \in FetchTimes : WallSet(w) /\ CacheFrame

SpecFetch == InitCache /\ [][NextFetch]_vars

\* AsyncTaskScheduler with concurrent registrations and the spawned bodies.
InitSched ==
    /\ SchedInit /\ DbInit /\ RlQuiet /\ LkQuiet /\ WaitQuiet /\ CacheQuiet
    /\ QueueQuiet /\ StoreQuiet /\ ConfigQuiet
    /\ ResourceQuiet
    /\ RetryQuiet

NextSched ==
    \/ \E r \in Registrants, kind \in {"periodic", "one_time"}, delay \in Delays :
          AddTaskGenerateId(r, kind, delay) /\ SchedFrame
    \/ \E r \in Registrants : AddTaskPushAndSpawn(r) /\ SchedFrame
    \/ \E r \in Registrants : AddTaskPushHandle(r) /\ SchedFrame
    \/ \E id \in TaskIds : OneTimeStart(id) /\ SchedFrame
    \/ \E id \in TaskIds, returns \in BOOLEAN : OneTimeWork(id, returns) /\ SchedFrame
    \/ \E id \in TaskIds : OneTimeComplete(id) /\ SchedFrame
    \/ \E id \in TaskIds : PeriodicStart(id) /\ SchedFrame
    \/ \E id \in TaskIds, returns \in BOOLEAN : PeriodicWork(id, returns) /\ SchedFrame
    \/ SchedTick /\ SchedFrame

SpecSched == InitSched /\ [][NextSched]_vars

\* A step of the one-time body of the task with the id.
OneTimeBody(id) ==
    \/ OneTimeStart(id)
    \/ \E returns \in BOOLEAN : OneTimeWork(id, returns)
    \/ OneTimeComplete(id)

\* The runtime polls every spawned body, whose lock is held only for
\* single updates, and time passes.
SpecSchedFair ==
    /\ SpecSched
    /\ \A id \in TaskIds : WF_vars(OneTimeBody(id) /\ SchedFrame)
    /\ WF_vars(SchedTick /\ SchedFrame)

\* The scheduler with the Instants its records are stamped with.
\* One caller registers the tasks, one after the other.
Registrant == "r1"

NextSchedClock ==
    \/ \E kind \in {"periodic", "one_time"}, delay \in Delays :
          AddTaskGenerateId(Registrant, kind, delay) /\ SchedFrame
    \/ AddTaskPushAndSpawn(Registrant) /\ SchedFrame
    \/ AddTaskPushHandle(Registrant) /\ SchedFrame
    \/ \E id \in TaskIds : OneTimeStart(id) /\ SchedFrame
    \/ \E id \in TaskIds, returns \in BOOLEAN : OneTimeWork(id, returns) /\ SchedFrame
    \/ \E id \in TaskIds : OneTimeComplete(id) /\ SchedFrame
    \/ \E id \in TaskIds : PeriodicStart(id) /\ SchedFrame
    \/ \E id \in TaskIds, returns \in BOOLEAN : PeriodicWork(id, returns) /\ SchedFrame
    \/ SchedTick /\ SchedFrame
    \/ InstantPasses /\ ClockFrame

SpecSchedClock == InitSched /\ [][NextSchedClock]_vars

\* The scheduler with one caller of wait_for_all.
NextSchedWait ==
    \/ NextSched
    \/ WaitForAllCall /\ JoinFrame
    \/ WaitForAllAwait /\ JoinFrame
    \/ WaitForAllReturn /\ JoinFrame

SpecSchedWait == InitSched /\ [][NextSchedWait]_vars

\* A step of the periodic body of the task with the id.
PeriodicBody(id) ==
    \/ PeriodicStart(id)
    \/ \E returns \in BOOLEAN : PeriodicWork(id, returns)

\* What a registrant does after it got its id.
AddTaskRest(r) == AddTaskPushAndSpawn(r) \/ AddTaskPushHandle(r)

\* What wait_for_all does after it got its guard.
WaitForAllRest == WaitForAllAwait \/ WaitForAllReturn

\* The runtime polls every spawned body and every caller that can go on,
\* and time passes.
SpecSchedWaitFair ==
    /\ SpecSchedWait
    /\ \A id \in TaskIds : WF_vars(OneTimeBody(id) /\ SchedFrame)
    /\ \A id \in TaskIds : WF_vars(PeriodicBody(id) /\ SchedFrame)
    /\ \A r \in Registrants : WF_vars(AddTaskRest(r) /\ SchedFrame)
    /\ WF_vars(SchedTick /\ SchedFrame)
    /\ WF_vars(WaitForAllRest /\ JoinFrame)

InitQueue ==
    /\ QueueInit /\ DbInit /\ RlQuiet /\ LkQuiet /\ WaitQuiet /\ CacheQuiet
    /\ SchedQuiet /\ StoreQuiet /\ ConfigQuiet
    /\ ResourceQuiet
    /\ RetryQuiet

\* Enqueues and plain dequeues only.
NextQueueFifo ==
    \/ \E priority \in TaskPriority : Enqueue(priority) /\ QueueFrame
    \/ Dequeue /\ QueueFrame

SpecQueueFifo == InitQueue /\ [][NextQueueFifo]_vars

NextQueue ==
    \/ \E priority \in TaskPriority : Enqueue(priority) /\ QueueFrame
    \/ Dequeue /\ QueueFrame
    \/ DequeueByPriority /\ QueueFrame

SpecQueue == InitQueue /\ [][NextQueue]_vars

InitStore ==
    /\ StoreInit /\ DbInit /\ RlQuiet /\ LkQuiet /\ WaitQuiet /\ CacheQuiet
    /\ SchedQuiet /\ QueueQuiet /\ ConfigQuiet
    /\ ResourceQuiet
    /\ RetryQuiet

NextStore ==
    \/ \E user \in Users : CreateUser(user) /\ StoreFrame
    \/ \E user \in Users : UpdateUser(user) /\ StoreFrame
    \/ \E id \in UserIds : DeleteUser(id) /\ StoreFrame
    \/ \E id \in UserIds : FindUser(id) /\ StoreFrame
    \/ TxBegin /\ StoreFrame
    \/ \E op \in DatabaseOperation : TxAddOperation(op) /\ StoreFrame
    \/ \E ok \in BOOLEAN : TxClosureReturns(ok) /\ StoreFrame
    \/ TxCommitStep /\ StoreFrame
    \/ TxReturn /\ StoreFrame

SpecStore == InitStore /\ [][NextStore]_vars

InitConfig ==
    /\ ConfigInit /\ DbInit /\ RlQuiet /\ LkQuiet /\ WaitQuiet /\ CacheQuiet
    /\ SchedQuiet /\ QueueQuiet /\ StoreQuiet /\ ResourceQuiet
    /\ RetryQuiet

NextConfig ==
    \/ AddWatcher /\ ConfigFrame
    \/ \E t \in ConfigTasks : GetConfigCall(t) /\ ConfigFrame
    \/ \E t \in ConfigTasks, new \in AppConfigs :
          UpdateConfigCall(t, new) /\ ConfigFrame
    \/ \E t \in ConfigTasks, new \in AppConfigs, parsed \in BOOLEAN :
          LoadFromFileCall(t, new, parsed) /\ ConfigFrame
    \/ \E t \in ConfigTasks : ConfigWriteGranted(t) /\ ConfigFrame
    \/ \E t \in ConfigTasks : ConfigReadGranted(t) /\ ConfigFrame

SpecConfig == InitConfig /\ [][NextConfig]_vars

\* A task that asks for a guard gets it when the lock allows it.
SpecConfigFair ==
    /\ SpecConfig
    /\ \A t \in ConfigTasks : WF_vars(ConfigWriteGranted(t) /\ ConfigFrame)
    /\ \A t \in ConfigTasks : WF_vars(ConfigReadGranted(t) /\ ConfigFrame)

InitResource ==
    /\ ResourceInit /\ DbInit /\ RlQuiet /\ LkQuiet /\ WaitQuiet /\ CacheQuiet
    /\ SchedQuiet /\ QueueQuiet /\ StoreQuiet /\ ConfigQuiet /\ RetryQuiet

NextResource ==
    \/ ResourceAcquire /\ ResourceFrame
    \/ \E id \in 1..MaxResourceAcquires : ResourceRelease(id) /\ ResourceFrame

SpecResource == InitResource /\ [][NextResource]_vars

InitRetry ==
    /\ RetryInit /\ DbInit /\ RlQuiet /\ LkQuiet /\ WaitQuiet /\ CacheQuiet
    /\ SchedQuiet /\ QueueQuiet /\ StoreQuiet /\ ConfigQuiet /\ ResourceQuiet

NextRetry ==
    \/ RetryLoop /\ RetryFrame
    \/ \E outcome \in AttemptOutcomes("with_retry_timeout") :
           RetryAttempt(outcome) /\ RetryFrame
    \/ RetrySleep /\ RetryFrame

SpecRetry == InitRetry /\ [][NextRetry]_vars

\* =============================================================== claims
\* The connection with the given id, as the database's pool records it.
ConnOf(c) == connection_pool[FindIdFrom(connection_pool, c, 1)]
Created(c) == FindIdFrom(connection_pool, c, 1) # 0
InIdleList(c) == \E i \in DOMAIN connections : connections[i] = c
HandlesOf(c) == dbHandles[c] + pooledHandles[c]

\* C1: with max_connections = K, at most K connections are in callers'
\* hands at the same time (an acquire beyond K is refused).
C1_AtMostKInUse ==
    max_connections >= 1 => BagSize(pooledHandles) <= max_connections

\* C2: no connection is borrowed by two callers: every connection has at
\* most one live handle, and a connection with a live handle is neither
\* idle in the database's pool nor in the ConnectionPool's idle list.
C2_NoDoubleBorrow ==
    \A c \in ConnIds :
        /\ HandlesOf(c) <= 1
        /\ HandlesOf(c) = 1 =>
              /\ Created(c)
              /\ ~ConnOf(c).is_active
              /\ ~InIdleList(c)

\* A connection that went back to the pool is in a caller's hands again
\* while another caller holds another connection.
C2_Witness ==
    \E c, d \in ConnIds :
        /\ c # d
        /\ released[c] >= 1
        /\ pooledHandles[c] = 1
        /\ pooledHandles[d] = 1

\* C3: every handle that leaves its scope has return_connection run for
\* its connection exactly once, after which the connection becomes idle
\* again (in the idle list, or marked idle in the database's pool); a
\* connection in use without a live handle does not stay so.
PoolIdle(c) == InIdleList(c) \/ (Created(c) /\ ConnOf(c).is_active)
Leaked(c) == Created(c) /\ pooledHandles[c] = 0 /\ ~PoolIdle(c)

C3_ReleasedOnceThenIdle ==
    /\ [](\A c \in ConnIds : returned[c] + returnTasks[c] = dropped[c])
    /\ \A c \in ConnIds : (returnTasks[c] > 0) ~> (returned[c] = dropped[c])
    /\ \A c \in ConnIds : Leaked(c) ~> PoolIdle(c)

\* One dropped handle's connection sits in the idle list and another's was
\* released to the database's pool.
C3_Witness ==
    \E c, d \in ConnIds :
        /\ dropped[c] >= 1 /\ returned[c] = dropped[c] /\ InIdleList(c)
        /\ dropped[d] >= 1 /\ released[d] >= 1 /\ ConnOf(d).is_active

\* C4: acquire 3 connections, drop one handle, acquire again: the 4th
\* acquire returns the dropped handle's id and the pool still holds 3
\* connections.
C4_ReuseAfterRelease ==
    (/\ Len(log) = 5
     /\ \A i \in 1..3 : log[i].kind = "get"
     /\ log[4].kind = "drop"
     /\ log[5].kind = "get")
    => (log[5].id = log[4].id /\ Len(connection_pool) = 3)

\* C5: when a handle's scope exit is over its connection is already idle:
\* no release is pending in a spawned task and every connection without a
\* live handle is marked idle.
C5_ReleaseSynchronous ==
    \A c \in ConnIds :
        /\ releaseTasks[c] = 0
        /\ (Created(c) /\ dbHandles[c] = 0) => ConnOf(c).is_active

\* C6: a task suspended at an await of a sleep, a tick, simulated I/O, a
\* fetch or a task handle holds no lock.
C6_NoLockWhileSuspended ==
    \A t \in LockTasks : lkSuspended[t] => lkHeld[t] = {}

\* The timestamps of a decision's window before the call that are younger
\* than the window, by position.
Young(e) ==
    {i \in DOMAIN e.before : duration_since(e.now, e.before[i]) < time_window}
YoungSeq(e) ==
    LET young(t) == duration_since(e.now, t) < time_window
    IN SelectSeq(e.before, young)
\* What a decision kept of the window it found.
Kept(e) == IF e.ok THEN SubSeq(e.after, 1, Len(e.after) - 1) ELSE e.after
Decisions == {rlLog[k] : k \in DOMAIN rlLog}

\* C7: after every admission decision the window holds at most
\* max_requests timestamps.
C7_WindowBounded ==
    /\ Len(requests) <= max_requests
    /\ \A e \in Decisions : Len(e.after) <= max_requests

\* A full window of two or more admissions, reached with a rejection.
C7_Witness ==
    /\ max_requests >= 2
    /\ Len(requests) = max_requests
    /\ \E e \in Decisions : ~e.ok

\* The first k decisions were all made for the same instant.
SameInstant(k) ==
    /\ k <= Len(rlLog)
    /\ \A j \in 1..k : rlLog[j].now = rlLog[1].now

BurstThenWait ==
    /\ \A k \in 1..max_requests : SameInstant(k) => rlLog[k].ok
    /\ SameInstant(max_requests + 1) => ~rlLog[max_requests + 1].ok
    /\ (/\ SameInstant(max_requests + 1)
        /\ Len(rlLog) >= max_requests + 2
        /\ rlLog[max_requests + 2].now >= rlLog[1].now + time_window)
       => rlLog[max_requests + 2].ok

\* C8 as stated: from an empty window R allow calls at one instant return
\* true, the (R+1)th returns false, and an allow at least W later returns
\* true, for every R and W.
C8_BurstThenWait_Original == BurstThenWait

\* C8 amended: the same for max_requests >= 1 and a window longer than 0.
C8_BurstThenWait ==
    (max_requests >= 1 /\ time_window >= 1) => BurstThenWait

\* R admissions and a rejection at one instant, then an admission W later.
C8_Witness ==
    /\ max_requests >= 1 /\ time_window >= 1
    /\ SameInstant(max_requests + 1)
    /\ Len(rlLog) >= max_requests + 2
    /\ rlLog[max_requests + 2].now >= rlLog[1].now + time_window
    /\ rlLog[max_requests + 2].ok

\* C9: a timestamp whose age equals the window is pruned and does not count
\* toward max_requests: what a decision keeps is strictly younger than the
\* window, and it admits exactly when fewer than max_requests are younger.
C9_BoundaryPruned ==
    \A e \in Decisions :
        /\ \A i \in DOMAIN Kept(e) :
              duration_since(e.now, Kept(e)[i]) < time_window
        /\ e.ok <=> Cardinality(Young(e)) < max_requests

\* A call admitted only because the timestamps that filled the window were
\* exactly one window old.
C9_Witness ==
    \E e \in Decisions :
        /\ time_window >= 1
        /\ Len(e.before) = max_requests
        /\ \A i \in DOMAIN e.before :
              duration_since(e.now, e.before[i]) = time_window
        /\ e.ok

\* C10: a rejected allow leaves the window it found minus the expired
\* timestamps and records nothing; an admitted allow leaves that plus its
\* own now, once, at the end.
C10_AllowFrame ==
    /\ \A e \in Decisions :
          e.after = IF e.ok THEN Append(YoungSeq(e), e.now) ELSE YoungSeq(e)
    /\ rlLog # <<>> => requests = rlLog[Len(rlLog)].after

\* A rejection on a full window, and an admission that pruned an expired
\* timestamp and kept a young one.
C10_Witness ==
    \E e, f \in Decisions :
        /\ ~e.ok
        /\ e.before # <<>>
        /\ f.ok
        /\ Len(f.after) = Len(f.before)
        /\ Len(f.after) >= 2

\* C11: a wait_for_permission call that has returned pushed exactly one
\* timestamp, by its last allow_request, which was admitted; a call still
\* in its loop has pushed none; and with max_requests >= 1 a call in its
\* loop returns in the end.
C11_WaitAdmittedOnce ==
    /\ [](waitPc = "returned" =>
            /\ waitRecorded = 1
            /\ rlLog # <<>>
            /\ rlLog[Len(rlLog)].ok
            /\ rlLog[Len(rlLog)].now = rlNow[Waiter]
            /\ \E i \in DOMAIN requests : requests[i] = rlNow[Waiter])
    /\ [](waitPc \in {"trying", "sleeping"} => waitRecorded = 0)
    /\ (waitPc \in {"trying", "sleeping"} /\ max_requests >= 1) ~> (waitPc = "returned")

\* A call returned after it was refused and slept at least once.
C11_Witness ==
    /\ waitPc = "returned"
    /\ Len(rlLog) >= 2
    /\ ~rlLog[Len(rlLog) - 1].ok
    /\ rlLog[Len(rlLog)].ok
    /\ rlLog[Len(rlLog)].now > rlLog[Len(rlLog) - 1].now

\* The step of task t that ends its store_in_cache.
StoreEnds(t) == cachePc[t] = "storing" /\ cachePc'[t] # "storing"

\* The step of task t that ends its cleanup_cache.
SweepEnds(t) == cachePc[t] = "sweeping" /\ cachePc'[t] # "sweeping"

C13_SweepExact ==
    [][\A t \in CacheTasks :
         SweepEnds(t) =>
            /\ \A k \in DOMAIN cache :
                  /\ cacheNow[t] - cache[k].timestamp >= cache[k].ttl
                        => k \notin DOMAIN cache'
                  /\ cacheNow[t] - cache[k].timestamp < cache[k].ttl
                        => k \in DOMAIN cache' /\ cache'[k] = cache[k]
            /\ (\A k \in DOMAIN cache : cache[k].ttl = 0) => cache' = EmptyCache]_vars

\* C14: store_in_cache(url, data, ttl) leaves under url the entry with the
\* new data, the new ttl and the now the call read as timestamp, whatever
\* was there, so that a get from that now on and before now + ttl returns
\* the data; the entries under other urls are unchanged.
C14_StoreReplaces ==
    [][\A t \in CacheTasks :
         StoreEnds(t) =>
            /\ DOMAIN cache' = DOMAIN cache \cup {cacheUrl[t]}
            /\ cache'[cacheUrl[t]] =
                  CacheEntry(cacheData[t], cacheNow[t], cacheTtl[t])
            /\ \A k \in DOMAIN cache \ {cacheUrl[t]} : cache'[k] = cache[k]
            /\ \A w \in WallTimes :
                  (cacheNow[t] <= w /\ w < cacheNow[t] + cacheTtl[t])
                     => get_from_cache(cache', cacheUrl[t], w) = Some(cacheData[t])]_vars

\* A store replaced an entry of other data, written at an earlier second.
C14_Witness ==
    /\ cacheEv.op = "store"
    /\ cacheEv.replaced
    /\ cacheEv.now > 0
    /\ cache[cacheEv.url].timestamp = cacheEv.now

\* C15: a fetch_with_cache call whose get hits returns the cached data in
\* that step, sends no request, writes nothing, and leaves the map, every
\* data and every timestamp as they were.
C15_HitFrame ==
    [][(/\ cacheOps' = cacheOps + 1
        /\ cacheEv'.op = "get"
        /\ cacheEv'.result # None)
         => /\ cache' = cache
            /\ cachePc' = cachePc
            /\ cacheEv'.url \in DOMAIN cache
            /\ cacheEv'.result = Some(cache[cacheEv'.url].data)
            /\ \E t \in CacheTasks :
                  fetchCall'[t] = [NoCall EXCEPT !.url = cacheEv'.url,
                                                !.result = cacheEv'.result,
                                                !.ok = TRUE,
                                                !.done = TRUE]]_vars

\* A call hit on an entry stored before the second of the call.
C15_Witness ==
    /\ cacheEv.op = "get"
    /\ cacheEv.result # None
    /\ cacheEv.now > cache[cacheEv.url].timestamp
    /\ \E t \in CacheTasks :
          /\ fetchCall[t].done
          /\ ~fetchCall[t].missed
          /\ fetchCall[t].url = cacheEv.url
          /\ fetchCall[t].result = cacheEv.result

\* C16: a fetch_with_cache call that missed and whose fetch succeeded has
\* sent one request, stores the fetched content under its url with ttl 300
\* and returns that content, and a get for the url from the stored
\* timestamp on and before 300 seconds later returns it.
C16_MissStores ==
    [][\A t \in CacheTasks :
         (StoreEnds(t) /\ cacheVia[t] = "fetch") =>
            /\ fetchCall[t].missed
            /\ fetchCall'[t].done /\ fetchCall'[t].ok
            /\ fetchCall'[t].fetches = 1
            /\ fetchCall'[t].stores = 1
            /\ fetchCall'[t].result = Some(cacheData[t])
            /\ cacheUrl[t] = fetchCall[t].url
            /\ cacheUrl[t] \in DOMAIN cache'
            /\ cache'[cacheUrl[t]] =
                  CacheEntry(cacheData[t], cacheNow[t], CACHE_TTL)
            /\ \A w \in FetchTimes :
                  (cacheNow[t] <= w /\ w < cacheNow[t] + CACHE_TTL)
                     => get_from_cache(cache', cacheUrl[t], w) = fetchCall'[t].result]_vars

\* A call missed on an expired entry, fetched, and replaced it.
C16_Witness ==
    /\ cacheEv.op = "store"
    /\ cacheEv.replaced
    /\ \E t \in CacheTasks :
          /\ fetchCall[t].done /\ fetchCall[t].missed /\ fetchCall[t].ok
          /\ fetchCall[t].url = cacheEv.url
          /\ cache[cacheEv.url].data = fetchCall[t].result[1]

\* Two finished calls that both missed on the same url while the other was
\* between its miss and its write.
Raced(t, u) ==
    /\ t # u
    /\ fetchCall[t].done /\ fetchCall[u].done
    /\ fetchCall[t].missed /\ fetchCall[u].missed
    /\ fetchCall[t].raced /\ fetchCall[u].raced
    /\ fetchCall[t].url = fetchCall[u].url

\* The entry the call of t wrote.
Wrote(t) ==
    CacheEntry(fetchCall[t].result[1], fetchCall[t].stored_at, CACHE_TTL)

\* C17 as stated: two concurrent calls that both missed on the same url
\* both sent a request and both wrote the cache, and the entry left is the
\* one written last.
C17_NoDedup_Original ==
    \A t, u \in CacheTasks :
        Raced(t, u) =>
            /\ fetchCall[t].fetches = 1 /\ fetchCall[u].fetches = 1
            /\ fetchCall[t].stores = 1 /\ fetchCall[u].stores = 1
            /\ fetchCall[t].stamp > fetchCall[u].stamp
                  => cache[fetchCall[t].url] = Wrote(t)

\* C17: two concurrent calls that both missed on the same url both sent a
\* request, each whose fetch succeeded wrote the cache once and the other
\* wrote nothing, and when both wrote the entry left is the one written
\* last.
C17_NoDedup ==
    \A t, u \in CacheTasks :
        Raced(t, u) =>
            /\ fetchCall[t].fetches = 1 /\ fetchCall[u].fetches = 1
            /\ fetchCall[t].stores = (IF fetchCall[t].ok THEN 1 ELSE 0)
            /\ (fetchCall[t].ok /\ fetchCall[u].ok
                 /\ fetchCall[t].stamp > fetchCall[u].stamp)
                  => /\ fetchCall[t].url \in DOMAIN cache
                     /\ cache[fetchCall[t].url] = Wrote(t)

\* Two concurrent misses on one url fetched different contents and both
\* wrote; the entry left holds the content written last.
C17_Witness ==
    \E t, u \in CacheTasks :
        /\ Raced(t, u)
        /\ fetchCall[t].ok /\ fetchCall[u].ok
        /\ fetchCall[t].result # fetchCall[u].result
        /\ fetchCall[t].stamp > fetchCall[u].stamp
        /\ cache[fetchCall[t].url].data = fetchCall[t].result[1]

\* The status of the task with the id, "none" when tasks has none.
StatusOf(ts, id) ==
    IF find_task(ts, id) = 0 THEN "none" ELSE ts[find_task(ts, id)].status

\* The changes of status the state machine allows.
StatusSteps ==
    {<<"Pending", "Running">>, <<"Running", "Completed">>,
     <<"Running", "Failed">>, <<"Running", "Cancelled">>}

\* C18: the status of a task changes only from Pending to Running or from
\* Running to Completed, Failed or Cancelled, a record that is in tasks
\* stays at its index with its id, and no task is ever Failed or Cancelled.
C18_StatusMachine ==
    /\ [][\A i \in DOMAIN tasks :
            /\ i \in DOMAIN tasks'
            /\ tasks'[i].id = tasks[i].id
            /\ tasks'[i].status # tasks[i].status
                  => <<tasks[i].status, tasks'[i].status>> \in StatusSteps]_vars
    /\ [](\A i \in DOMAIN tasks : tasks[i].status \in {"Pending", "Running", "Completed"})

\* A task is Completed while a task registered before it is still Pending.
C18_Witness ==
    \E i, j \in DOMAIN tasks :
        /\ tasks[i].status = "Completed"
        /\ tasks[j].status = "Pending"
        /\ j < i

\* C19: the ids generate_task_id issued are strictly increasing in the
\* order of issuance, and the ids the add_ calls returned and the ids of
\* the records are pairwise distinct, with registrations interleaved.
C19_IdsIncrease ==
    /\ \A i, j \in DOMAIN issued : i < j => issued[i] < issued[j]
    /\ \A i, j \in DOMAIN returnedIds : i # j => returnedIds[i] # returnedIds[j]
    /\ \A i, j \in DOMAIN tasks : i # j => tasks[i].id # tasks[j].id

\* Two registrations overlapped: the call that got the later id returned
\* first.
C19_Witness ==
    /\ Len(returnedIds) >= 2
    /\ returnedIds[1] > returnedIds[2]

\* C20: the work of a one-time task is invoked at most once and only when
\* its delay has elapsed; when the body has ended the work was invoked once
\* and the task is Completed with completed_at set; and a spawned one-time
\* body whose work does not panic ends: no body is for ever between its
\* spawn and its end.
C20_OneTimeCompletes ==
    /\ [](\A id \in TaskIds :
            bodyKind[id] = "one_time" =>
               /\ invoked[id] <= 1
               /\ invoked[id] = 1 => bodyTimer[id] = 0
               /\ bodyPc[id] \in {"none", "spawned", "running"}
                     => StatusOf(tasks, id) # "Completed"
               /\ bodyPc[id] = "finished" =>
                     /\ invoked[id] = 1
                     /\ StatusOf(tasks, id) = "Completed"
                     /\ tasks[find_task(tasks, id)].completed_at = "Some")
    /\ <>[](\A id \in TaskIds :
               bodyKind[id] = "one_time"
                  => bodyPc[id] \in {"none", "finished", "panicked"})

\* A one-time task is Completed while the body of another still sleeps.
C20_Witness ==
    \E id, other \in TaskIds :
        /\ bodyKind[id] = "one_time"
        /\ bodyPc[id] = "finished"
        /\ invoked[id] = 1
        /\ StatusOf(tasks, id) = "Completed"
        /\ bodyKind[other] = "one_time"
        /\ bodyPc[other] = "spawned"
        /\ bodyTimer[other] > 0

\* C21: a periodic task whose first interval tick has fired (its work was
\* invoked) has status Running; a periodic task that is Running stays
\* Running in every later step; and no periodic task is ever Completed,
\* Failed or Cancelled, after any number of ticks.
C21_PeriodicStaysRunning ==
    /\ [](\A id \in TaskIds :
            bodyKind[id] = "periodic" /\ bodyPc[id] # "none" =>
                /\ invoked[id] >= 1 => StatusOf(tasks, id) = "Running"
                /\ StatusOf(tasks, id) \in {"Pending", "Running"})
    /\ [][\A id \in TaskIds :
            bodyKind[id] = "periodic" /\ StatusOf(tasks, id) = "Running" =>
                StatusOf(tasks', id) = "Running"]_vars

\* The work of a periodic task was invoked, a round of it panicked, and
\* the task is Running.
C21_Witness ==
    \E id \in TaskIds :
        /\ bodyKind[id] = "periodic"
        /\ invoked[id] = MaxRuns
        /\ bodyPc[id] = "panicked"
        /\ StatusOf(tasks, id) = "Running"

\* C22: registration does not block: every add_periodic_task or
\* add_one_time_task call that got its id eventually returns it, in every
\* interleaving with the other scheduler operations, also while another
\* caller is inside wait_for_all; from some point on no registrant is
\* inside a call.
C22_RegistrationReturns ==
    <>[](\A r \in Registrants : regPc[r] = "idle")

\* C23: registration creates the record with status Pending and neither
\* started_at nor completed_at; from the moment an add_ call returned an id,
\* get_task_info(id) returns a record with that id in every later state;
\* and no record is ever removed, also after its task completed.
C23_RecordStays ==
    /\ [](\A i \in 1..Len(returnedIds) :
            /\ get_task_info(tasks, returnedIds[i]) # None
            /\ get_task_info(tasks, returnedIds[i])[1].id = returnedIds[i])
    /\ [][\A id \in TaskIds :
            /\ get_task_info(tasks, id) = None /\ get_task_info(tasks', id) # None
                => get_task_info(tasks', id) =
                       Some(TaskInfo(id, "Pending", "None", "None"))
            /\ get_task_info(tasks, id) # None
                => /\ get_task_info(tasks', id) # None
                   /\ get_task_info(tasks', id)[1].id = id]_vars

\* The second id was returned, its task completed, and get_task_info
\* returns its record.
C23_Witness ==
    /\ \E i \in 1..Len(returnedIds) : returnedIds[i] = 2
    /\ bodyPc[2] = "finished"
    /\ get_task_info(tasks, 2) = Some(TaskInfo(2, "Completed", "Some", "Some"))

\* C24: when wait_for_all has returned, every handle tracked at the time
\* of the call has finished, none of the tasks tracked is periodic (with a
\* periodic task it never returns), and every task tracked is Completed.
C24_WaitAllReturns ==
    joinPc = "returned" =>
        \A i \in 1..Len(joinTracked) :
            /\ handle_finished(bodyPc[joinTracked[i]])
            /\ bodyKind[joinTracked[i]] = "one_time"
            /\ StatusOf(tasks, joinTracked[i]) = "Completed"

\* C25: dequeue_by_priority returns a record of the highest priority
\* present: when it returns a record, no record of strictly higher
\* priority remains in the queue.
C25_HighestFirst ==
    [][qOp' = "dequeue_by_priority" /\ queue # <<>> =>
          /\ qResult' # None
          /\ \A i \in 1..Len(queue') :
                queue'[i].priority <= qResult'[1].priority]_vars

\* C26: among records of equal priority dequeue_by_priority returns the
\* earlier-enqueued first: when it returns a record, every record of the
\* same priority that remains in the queue was enqueued later.
C26_TiesInInsertionOrder ==
    [][qOp' = "dequeue_by_priority" /\ queue # <<>> =>
          /\ qResult' # None
          /\ \A i \in 1..Len(queue') :
                queue'[i].priority = qResult'[1].priority =>
                    queue'[i].id > qResult'[1].id]_vars

\* C27: with enqueues and dequeues only, each dequeue returns the oldest
\* record still in the queue and removes exactly that record; on an empty
\* queue it returns nothing and leaves the queue empty.
C27_DequeueFifo ==
    [][qOp' = "dequeue" =>
          IF queue = <<>>
          THEN qResult' = None /\ queue' = <<>>
          ELSE qResult' = Some(Head(queue)) /\ queue' = Tail(queue)]_vars

\* C28: the size of a queue with max_size = Some(c) never exceeds c; an
\* enqueue on such a queue holding c records fails with the queue-full
\* error and leaves the queue unchanged; every other enqueue, and every
\* enqueue on a queue without max_size, succeeds and appends its record.
C28_Capacity ==
    /\ [](max_size # None => Len(queue) <= max_size[1])
    /\ [][qOp' = "enqueue" /\ qCalls' = qCalls + 1 =>
            IF max_size # None /\ Len(queue) >= max_size[1]
            THEN qResult' = QueueFullError /\ queue' = queue
            ELSE /\ qResult' = EnqueueOk
                 /\ Len(queue') = Len(queue) + 1
                 /\ SubSeq(queue', 1, Len(queue)) = queue
                 /\ queue'[Len(queue')].id = qCalls']_vars

\* An enqueue on a queue holding max_size = 2 records failed.
C28_Witness ==
    /\ max_size = Some(MaxCapacity)
    /\ Len(queue) = MaxCapacity
    /\ qOp = "enqueue"
    /\ qResult = QueueFullError

\* Three enqueues on a queue without max_size succeeded.
C28_WitnessUnbounded ==
    /\ max_size = None
    /\ Len(queue) = 3
    /\ qOp = "enqueue"
    /\ qResult = EnqueueOk

\* C29: AsyncDatabase::get_connection creates a connection only when no
\* connection of connection_pool is marked idle at the call; when one is,
\* it returns the id of a connection that was idle, marks that connection
\* in use, changes no other connection and leaves the number of
\* connections unchanged.
C29_CreateOnlyWhenNoneIdle ==
    [][acquires' = acquires + 1 =>
          IF \E i \in 1..Len(connection_pool) : connection_pool[i].is_active
          THEN /\ Len(connection_pool') = Len(connection_pool)
               /\ \E i \in 1..Len(connection_pool) :
                     /\ connection_pool[i].is_active
                     /\ ~connection_pool'[i].is_active
                     /\ connection_pool[i].id = log'[Len(log')].id
                     /\ \A j \in 1..Len(connection_pool) :
                           j # i => connection_pool'[j] = connection_pool[j]
          ELSE /\ Len(connection_pool') = Len(connection_pool) + 1
               /\ SubSeq(connection_pool', 1, Len(connection_pool)) =
                      connection_pool
               /\ connection_pool'[Len(connection_pool')].id =
                      log'[Len(log')].id]_vars

\* The last get_connection returned a connection that had been released,
\* while another connection was in use.
C29_Witness ==
    /\ Len(log) >= 3
    /\ log[Len(log)].kind = "get"
    /\ \E i \in 1..(Len(log) - 1) : log[i] = log[Len(log)]
    /\ Len(connection_pool) = 2
    /\ \A i \in 1..Len(connection_pool) : ~connection_pool[i].is_active

\* C30: the rate limiter's window is always an ordered sequence: the
\* retained timestamps are in non-decreasing order of time, also after
\* allow_request calls that ran concurrently.
C30_WindowOrdered ==
    \A i \in 1..Len(requests) : \A j \in 1..Len(requests) :
        i < j => requests[i] <= requests[j]

\* C31: get_from_cache never modifies the cache: the step of a get leaves
\* the key set and every entry as they were, also when the entry under
\* its url is expired; an entry leaves the map or changes only in a step
\* of cleanup_cache or of a store.
C31_GetFrame ==
    /\ [][cacheOps' = cacheOps + 1 /\ cacheEv'.op = "get" => cache' = cache]_vars
    /\ [][cache' # cache => cacheEv'.op \in {"store", "cleanup"}]_vars

\* A get missed on an expired entry, which is still in the map.
C31_Witness ==
    /\ cacheEv.op = "get"
    /\ ~cacheEv.panicked
    /\ cacheEv.result = None
    /\ cacheEv.url \in DOMAIN cache
    /\ cacheEv.now >= cache[cacheEv.url].timestamp + cache[cacheEv.url].ttl

\* C32: when send() or text() fails, fetch_with_cache returns the error
\* and that step leaves the cache unchanged; the call has stored nothing.
C32_ErrorFrame ==
    [][\A t \in CacheTasks :
          ~fetchCall[t].done /\ fetchCall'[t].done /\ ~fetchCall'[t].ok =>
              /\ cacheEv'.op = "fetch_err"
              /\ cache' = cache
              /\ fetchCall'[t].stores = 0
              /\ fetchCall'[t].result = None]_vars

\* A call failed for a url under which another call had stored an entry.
C32_Witness ==
    /\ cacheEv.op = "fetch_err"
    /\ cacheEv.url \in DOMAIN cache
    /\ \E t \in CacheTasks :
          /\ fetchCall[t].done
          /\ fetchCall[t].missed
          /\ ~fetchCall[t].ok
          /\ fetchCall[t].url = cacheEv.url

\* C33: the age now - timestamp never underflows: the now a get compares
\* with is at least the timestamp of the entry under its url, and the now
\* of a cleanup_cache or cache_stats is at least the timestamp of every
\* entry in the map.
C33_AgeNeverUnderflows ==
    [][cacheEv' # cacheEv =>
          /\ cacheEv'.op = "get" /\ cacheEv'.url \in DOMAIN cache
                => cacheEv'.now >= cache[cacheEv'.url].timestamp
          /\ cacheEv'.op \in {"cleanup", "stats"}
                => \A k \in DOMAIN cache :
                      cacheEv'.now >= cache[k].timestamp]_vars

\* C34: the work of a task is never invoked while its record is Pending:
\* every step that invokes the work of a periodic or one-time task starts
\* in a state where the record is Running with started_at set, and a task
\* whose work was invoked is never Pending.
C34_RunningBeforeWork ==
    /\ [](\A id \in TaskIds :
            invoked[id] >= 1 =>
                /\ StatusOf(tasks, id) \in {"Running", "Completed"}
                /\ tasks[find_task(tasks, id)].started_at = "Some")
    /\ [][\A id \in TaskIds :
            invoked'[id] > invoked[id] =>
                /\ StatusOf(tasks, id) = "Running"
                /\ tasks[find_task(tasks, id)].started_at = "Some"]_vars

\* The work of a one-time task was invoked and has not returned into the
\* update to Completed yet: the task is Running.
C34_Witness ==
    \E id \in TaskIds :
        /\ bodyKind[id] = "one_time"
        /\ bodyPc[id] = "worked"
        /\ invoked[id] = 1
        /\ StatusOf(tasks, id) = "Running"

\* C35: in every state of the task registry started_at is set exactly
\* when the status is Running or Completed, completed_at is set exactly
\* when the status is Completed, and where they are set
\* created_at <= started_at <= completed_at.
C35_TimestampsMatchStatus ==
    \A i \in 1..Len(tasks) :
        LET task == tasks[i]
            at == instants[task.id]
        IN  /\ task.started_at = "Some" <=> task.status \in {"Running", "Completed"}
            /\ task.completed_at = "Some" <=> task.status = "Completed"
            /\ task.started_at = "Some" => at.created_at <= at.started_at
            /\ task.completed_at = "Some" => at.started_at <= at.completed_at

\* A task created at Instant 1 and Completed, another one Pending.
C35_Witness ==
    \E i, j \in 1..Len(tasks) :
        /\ tasks[i].status = "Completed"
        /\ instants[tasks[i].id].created_at >= 1
        /\ tasks[j].status = "Pending"

\* C36: update_user for an id that is not in data returns an error and
\* leaves data unchanged; for an id that is in data it returns Ok and
\* replaces the record; and after delete_user of an id find_user of that
\* id returns None.
C36_UpdateUser ==
    [][storeOps' = storeOps + 1 =>
          /\ storeEv'.op = "update" =>
                IF storeEv'.id \in DOMAIN db_data
                THEN /\ storeEv'.result = UserOk
                     /\ DOMAIN db_data' = DOMAIN db_data
                     /\ find_user(db_data', storeEv'.id) = Some(storeEv'.user)
                     /\ \A id \in DOMAIN db_data :
                           id # storeEv'.id => db_data'[id] = db_data[id]
                ELSE /\ storeEv'.result = UserNotFound
                     /\ db_data' = db_data
          /\ storeEv'.op = "delete" =>
                /\ find_user(db_data', storeEv'.id) = None
                /\ \A id \in DOMAIN db_data :
                      id # storeEv'.id =>
                          id \in DOMAIN db_data' /\ db_data'[id] = db_data[id]
          /\ storeEv'.op = "find" =>
                storeEv'.result = find_user(db_data', storeEv'.id)]_vars

\* An update_user for a user that is not in data failed, another user being
\* in data.
C36_Witness ==
    /\ storeEv.op = "update"
    /\ storeEv.result = UserNotFound
    /\ storeEv.id \notin DOMAIN db_data
    /\ db_data # NoUsers

\* C37: a transaction is all-or-nothing: when transaction has returned an
\* error, because the closure failed or an operation failed during commit,
\* data is what it was when the transaction was begun.
C37_AllOrNothing ==
    txPc = "failed" => db_data = txBefore

\* C38: update_config and load_from_file always complete: from some point
\* on no task is inside a call of them, and a call of them that returned
\* Ok has notified every registered watcher once and left the
\* configuration it brought.
C38_UpdateCompletes ==
    /\ <>[](\A t \in ConfigTasks :
              cfgOp[t] \notin {"update_config", "load_from_file"})
    /\ [](cfgEv.op \in {"update_config", "load_from_file"} /\ cfgEv.ok =>
              cfgEv.notified = watchers)

\* C39: a ResourcePool created with max_resources = K never has more than
\* K resources acquired and not yet released at the same time.
C39_AtMostKHeld ==
    Cardinality(held) <= max_resources

\* C40: for every max_retries >= 0 a retry call makes at most that many
\* attempts, returns the first success without a further attempt, sleeps
\* after every failed attempt but the last one, and, when every attempt
\* has failed, returns the last attempt's error as an error value.
C40_RetryContract ==
    /\ attempts <= max_attempts
    /\ retryResult.kind = "Ok" => attempts = attempt
    /\ \A i \in 1..Len(sleeps) : sleeps[i] = i /\ i < max_attempts
    /\ retryPc = "done" /\ retryResult.kind # "Ok" =>
          /\ retryResult.kind = "Err"
          /\ retryResult.value \in RetryErrors \cup {"elapsed"}
          /\ retryResult.value # "elapsed" =>
                /\ retryResult.value = last_error
                /\ Len(sleeps) = max_attempts - 1

====
